---- MODULE Spec2Model ----
(***************************************************************************)
(* Shogun L2 bridge client (src/app.js): the durable ledger of batched     *)
(* withdrawals kept in localStorage, the batch-submission handler, the     *)
(* pending-withdrawals list and the three handlers that claim a withdrawal *)
(* on chain.  The relay, the wallet and the chain are the environment:     *)
(* their answers are drawn from the sets of answers the handlers           *)
(* distinguish.                                                            *)
(***************************************************************************)
EXTENDS Integers, Sequences, FiniteSets, TLC

\* ------------------------------------------------------------------ bounds
NumAccounts == 2
MaxNonce == 2
MaxAmount == 1
MaxBatch == 2
\* stimuli (clicks, console calls, requests of other clients) in a run, one
\* per tick of the clock
MaxOps == 5
\* ledger calls in a run of the ledger alone
MaxLedgerOps == 2
MaxTime == MaxOps + MaxLedgerOps

\* null, for each type of value it stands in for
NoAddr == [id |-> 0, uc |-> FALSE]
NoVal == [t |-> "null", v |-> 0]
NoTx == 0

\* ------------------------------------------------------------- JS values
\* An address string: the account it names and whether the string has
\* upper-case hex digits (checksum form) or is all lower-case.
Addr == [id : 1..NumAccounts, uc : BOOLEAN]

\* String.prototype.toLowerCase on an address string.
toLowerCase(a) == [a EXCEPT !.uc = FALSE]

\* A JS number or a JS decimal string holding a non-negative integer.
Val(S) == [t : {"num", "str"}, v : S]
Nonces == Val(1..MaxNonce)
Amounts == Val(1..MaxAmount)

\* x.toString() and `${x}`: the decimal string of a number or the string
\* itself.
toString(x) == [t |-> "str", v |-> x.v]

\* a === b: same type and same value.
StrictEq(a, b) == a.t = b.t /\ a.v = b.v

Str(n) == [t |-> "str", v |-> n]
Num(n) == [t |-> "num", v |-> n]
\* BigInt(n)
Big(n) == [t |-> "big", v |-> n]

BatchIds == 1..MaxBatch
\* the transaction hash the relay reports for batch b
TxOf(b) == 100 + b
TxHashes == {NoTx} \cup {TxOf(b) : b \in BatchIds}

\* The object literal handed to saveBatchedWithdrawal.
Withdrawals == [user : Addr, amount : Amounts, nonce : Nonces,
                batchId : BatchIds, txHash : TxHashes, timestamp : 0..MaxTime]

\* An entry of the stored list: the withdrawal plus its capture time.
\* JSON.stringify / JSON.parse keep numbers numbers, strings strings and
\* null null, so the stored value of each field is the value written.
Entries == [user : Addr, amount : Amounts, nonce : Nonces,
            batchId : BatchIds, txHash : TxHashes, timestamp : 0..MaxTime,
            batchedAt : 0..MaxTime]

-----------------------------------------------------------------------------
\* ------------------------------------------------------ ledger operations
\* `${w.user.toLowerCase()}:${w.nonce}`
KeyOf(w) == <<toLowerCase(w.user), toString(w.nonce)>>

\* Array.prototype.findIndex: the first index whose element satisfies the
\* test, 0 standing for -1.
FindIndex(withdrawals, key) ==
    LET hits == {i \in 1..Len(withdrawals) : KeyOf(withdrawals[i]) = key}
    IN IF hits = {} THEN 0 ELSE CHOOSE i \in hits : \A j \in hits : i <= j

\* { ...withdrawal, batchedAt: Date.now() }
Stamp(withdrawal, t) ==
    [user |-> withdrawal.user, amount |-> withdrawal.amount,
     nonce |-> withdrawal.nonce, batchId |-> withdrawal.batchId,
     txHash |-> withdrawal.txHash, timestamp |-> withdrawal.timestamp,
     batchedAt |-> t]

\* saveBatchedWithdrawal without the duplicate check: always pushes.
saveBatchedWithdrawal_AlwaysPush(withdrawals, withdrawal, t) ==
    Append(withdrawals, Stamp(withdrawal, t))

\* saveBatchedWithdrawal(withdrawal) at time t: the new stored list.
saveBatchedWithdrawal(withdrawals, withdrawal, t) ==
    LET existing == FindIndex(withdrawals, KeyOf(withdrawal))
    IN IF existing > 0
       THEN [withdrawals EXCEPT ![existing] = Stamp(withdrawal, t)]
       ELSE Append(withdrawals, Stamp(withdrawal, t))

\* The filter's test comparing the addresses as written.
RemoveMatches_CaseSensitive(w, user, nonce) ==
    w.user = user /\ StrictEq(w.nonce, nonce)

\* The filter's test looking at the account only.
RemoveMatches_AnyNonce(w, user, nonce) ==
    toLowerCase(w.user) = toLowerCase(user)

\* The filter's test looking at the nonce only.
RemoveMatches_NonceOnly(w, user, nonce) == StrictEq(w.nonce, nonce)

\* The test of removeBatchedWithdrawal's filter: the entry is the one to drop.
RemoveMatches(w, user, nonce) ==
    toLowerCase(w.user) = toLowerCase(user) /\ StrictEq(w.nonce, nonce)

\* removeBatchedWithdrawal(user, nonce): the new stored list.
removeBatchedWithdrawal(withdrawals, user, nonce) ==
    SelectSeq(withdrawals, LAMBDA w : ~RemoveMatches(w, user, nonce))

\* The filter's test comparing the addresses as written.
UserMatches_CaseSensitive(w, userAddress) == w.user = userAddress

\* The test of getUserBatchedWithdrawals' filter.
UserMatches(w, userAddress) == toLowerCase(w.user) = toLowerCase(userAddress)

\* getUserBatchedWithdrawals(userAddress)
getUserBatchedWithdrawals(withdrawals, userAddress) ==
    IF userAddress = NoAddr THEN <<>>
    ELSE SelectSeq(withdrawals, LAMBDA w : UserMatches(w, userAddress))

\* The object of window.recoverBatchedWithdrawal with amount and nonce kept
\* as they were passed.
RecoveredWithdrawal_Raw(user, amount, nonce, batchId, txHash, t) ==
    [user |-> user, amount |-> amount, nonce |-> nonce,
     batchId |-> batchId, txHash |-> txHash, timestamp |-> t]

\* The object window.recoverBatchedWithdrawal builds at time t.
RecoveredWithdrawal(user, amount, nonce, batchId, txHash, t) ==
    [user |-> user, amount |-> toString(amount), nonce |-> toString(nonce),
     batchId |-> batchId, txHash |-> txHash, timestamp |-> t]

Range(s) == {s[i] : i \in 1..Len(s)}

NoWithdrawal ==
    [user |-> NoAddr, amount |-> NoVal, nonce |-> NoVal, batchId |-> 0,
     txHash |-> NoTx, timestamp |-> 0]
NoEntry == Stamp(NoWithdrawal, 0)

\* The first entry removeBatchedWithdrawal(user, nonce) drops from the
\* list, NoEntry when it drops none.
Dropped(withdrawals, user, nonce) ==
    LET hits == {i \in 1..Len(withdrawals) :
                    RemoveMatches(withdrawals[i], user, nonce)}
    IN IF hits = {} THEN NoEntry
       ELSE withdrawals[CHOOSE i \in hits : \A j \in hits : i <= j]

-----------------------------------------------------------------------------
\* ------------------------------------------------------------------ state
VARIABLES
    storage,                 \* localStorage['shogun_batched_withdrawals'], parsed
    calls,                   \* ledger calls of pages sharing the storage, under way
    now,                     \* Date.now(), one tick per stimulus
    ev,                      \* what the last step did (history)
    bootAt,                  \* the clock when the page was last loaded anew (history)
    connectedAddress,
    gunKeypair,              \* TRUE when the keypair has been derived
    currentWithdrawalNonce,
    currentWithdrawalAmount,
    req,                     \* the running handleRequestWithdraw, if any
    wd,                      \* the running handleCheckProofAndWithdraw, if any
    xfer,                    \* the running handleTransfer, if any
    disabled,                \* the disabled flag of the static buttons
    flow,                    \* the running handler of the pending tab or of the tools, if any
    claimBtns,               \* the rendered .claim-btn buttons
    checkBtns,               \* the rendered .check-proof-btn buttons
    submitHidden,            \* submitBatchBtn carries the class hidden
    timers,                  \* the running polling intervals, by button id
    pollButtons,             \* window.proofPollingButtons
    polls,                   \* poll() calls waiting for the relay's answer
    relayFmt,                \* how the relay writes users and nonces
    build,                   \* the build that runs: "app.js", "part_001", "part_002"
    relayQueue,              \* the relay's pending withdrawals
    nextBatchId              \* the id the relay gives its next batch

ledgerVars == <<storage>>
sessionVars == <<connectedAddress, gunKeypair, bootAt>>
currentVars == <<currentWithdrawalNonce, currentWithdrawalAmount>>
tabVars == <<req, wd, xfer, disabled>>
listVars == <<flow, claimBtns, checkBtns, submitHidden>>
pollVars == <<timers, pollButtons, polls>>
fixedVars == <<relayFmt, build>>
relayVars == <<fixedVars, relayQueue, nextBatchId>>

vars == <<storage, calls, now, ev, bootAt, connectedAddress, gunKeypair,
          currentWithdrawalNonce, currentWithdrawalAmount, req, wd, xfer,
          disabled, flow, claimBtns, checkBtns, submitHidden, timers, pollButtons, polls,
          relayFmt, build, relayQueue, nextBatchId>>

appVars == <<sessionVars, currentVars, tabVars, listVars, pollVars, relayVars>>

\* The string JSON.stringify gives for the message that is signed: its
\* fields (to is NoAddr in a withdrawal's message, nonce NoVal where the
\* object has none).
NoMessage == [ethereumAddress |-> NoAddr, to |-> NoAddr, amount |-> NoVal,
              nonce |-> NoVal, timestamp |-> 0, type |-> "none"]
\* A signature: the string it was computed over and the account whose key
\* (the derived SEA pair, the wallet's signer) computed it.
NoSig == [over |-> NoMessage, by |-> 0]
\* What createDualSignatures returns.
NoAuth == [seaSignature |-> NoSig, ethSignature |-> NoSig, gunPubKey |-> 0]
\* The object handed to relay.bridge.withdraw or relay.bridge.transfer
\* (user is the field from of a transfer).
NoPayload == [user |-> NoAddr, to |-> NoAddr, amount |-> NoVal, nonce |-> NoVal,
              message |-> NoMessage, seaSignature |-> NoSig,
              ethSignature |-> NoSig, gunPubKey |-> 0]

\* The record of a step: its kind, the handler it belongs to, the key it is
\* about, the withdrawal object involved and a flag.
\* status is what the call answered in the step gave (the status of a proof
\* lookup, the receipt's status, the outcome of submitBatch), msg the kind
\* of the last message the step showed, chain tells that the step called
\* gunL2Bridge.withdraw, entry is the stored entry the step's
\* removeBatchedWithdrawal dropped, sent the payload the step handed to the
\* relay's withdraw or transfer endpoint, stale tells that the lookup
\* answered in the step was issued by a polling loop whose interval has
\* been cleared since.
Event(type, via, user, nonce, w, ok) ==
    [type |-> type, via |-> via, user |-> user, nonce |-> nonce, w |-> w,
     ok |-> ok, status |-> "none", msg |-> "none", chain |-> FALSE,
     entry |-> NoEntry, sent |-> NoPayload, stale |-> FALSE]
NoEvent == Event("none", "none", NoAddr, NoVal, NoWithdrawal, FALSE)

\* The static buttons and the flows of the withdraw tab before any click.
\* A flow holds the balance the relay reported, the message it built and
\* what createDualSignatures returned.
IdleTab == [pc |-> "idle", amount |-> NoVal, nonce |-> NoVal, batchId |-> 0,
            msg |-> NoVal, balance |-> NoVal, message |-> NoMessage,
            auth |-> NoAuth]
Buttons == {"requestWithdrawBtn", "checkProofBtn", "submitBatchBtn",
            "refreshWithdrawalsBtn", "transferBtn", "reconcileBalanceBtn"}

\* handleTransfer between two awaits: the recipient as typed, the amount,
\* the balance reported, the message and the signatures.
IdleTransfer == [pc |-> "idle", to |-> NoAddr, amount |-> NoVal,
                 balance |-> NoVal, message |-> NoMessage, auth |-> NoAuth]

\* A handler of the pending tab between two awaits: which handler, where,
\* the button's data-amount, data-nonce and data-batch, the button (its
\* place in the rendered list, and whether it is still in the document),
\* the refresh button's flag that setButtonLoading saved, and the list the
\* handler holds.
IdleFlow == [kind |-> "none", pc |-> "idle", amount |-> NoVal, nonce |-> NoVal,
             batchId |-> 0, btn |-> 0, att |-> FALSE, orig |-> FALSE,
             list |-> <<>>]

\* The pages of the origin that share the stored list, and a ledger call
\* of one of them between its localStorage.getItem and its
\* localStorage.setItem: the function, its argument (user and nonce for
\* removeBatchedWithdrawal) and the list it has read.
Contexts == {"tab1", "tab2"}
IdleCall == [pc |-> "idle", op |-> "none", w |-> NoWithdrawal, read |-> <<>>]

\* -------------------------------------------- the ledger operations alone
InitPage ==
    /\ calls = [c \in Contexts |-> IdleCall]
    /\ now = 0
    /\ ev = NoEvent
    /\ bootAt = 0
    /\ connectedAddress = NoAddr
    /\ gunKeypair = FALSE
    /\ currentWithdrawalNonce = NoVal
    /\ currentWithdrawalAmount = NoVal
    /\ req = IdleTab
    /\ wd = IdleTab
    /\ xfer = IdleTransfer
    /\ disabled = [b \in Buttons |-> FALSE]
    /\ flow = IdleFlow
    /\ claimBtns = <<>>
    /\ checkBtns = <<>>
    /\ submitHidden = TRUE
    /\ timers = {}
    /\ pollButtons = {}
    /\ polls = <<>>
    /\ relayFmt = [uc |-> FALSE, nt |-> "str"]
    /\ build = "app.js"
    /\ relayQueue = <<>>
    /\ nextBatchId = 1

InitLedger == storage = <<>> /\ InitPage

\* A call saveBatchedWithdrawal(w); the event's flag tells that the key was
\* present.
LedgerSave(w) ==
    /\ now < MaxLedgerOps
    /\ now' = now + 1
    /\ storage' = saveBatchedWithdrawal(storage, w, now)
    /\ ev' = Event("save", "ledger", w.user, w.nonce, w,
                   FindIndex(storage, KeyOf(w)) > 0)
    /\ UNCHANGED <<calls, appVars>>

\* A call removeBatchedWithdrawal(user, nonce); the event's flag tells that
\* the call directly follows saveBatchedWithdrawal(B) with user naming
\* B.user's account in any letter case and nonce being B.nonce.
LedgerRemove(user, nonce) ==
    /\ now < MaxLedgerOps
    /\ now' = now + 1
    /\ storage' = removeBatchedWithdrawal(storage, user, nonce)
    /\ ev' = Event("remove", "ledger", user, nonce, NoWithdrawal,
                   /\ ev.type = "save"
                   /\ toLowerCase(ev.w.user) = toLowerCase(user)
                   /\ ev.w.nonce = nonce)
    /\ UNCHANGED <<calls, appVars>>

\* The batch one amount is put in (keeps the payloads of the ledger calls
\* one-dimensional).
BatchOfAmount(a) == ((a.v - 1) % MaxBatch) + 1

\* Withdrawal objects as the batch handler builds them: the relay's
\* fields, stamped with the batch's id and transaction hash.
SaveInputs ==
    {w \in Withdrawals : /\ w.txHash = TxOf(w.batchId)
                         /\ w.batchId = BatchOfAmount(w.amount)
                         /\ w.timestamp = 0
                         /\ w.amount.t = "str"}

\* A console call window.recoverBatchedWithdrawal(user, amount, nonce,
\* batchId, txHash), txHash being NoTx when the argument is omitted.
RecoverBatchedWithdrawal(user, amount, nonce, batchId, txHash) ==
    LET w == RecoveredWithdrawal(user, amount, nonce, batchId, txHash, now)
    IN /\ storage' = saveBatchedWithdrawal(storage, w, now)
       /\ ev' = Event("recover", "console", user, nonce, w,
                      FindIndex(storage, KeyOf(w)) > 0)

\* The arguments an operator passes: numbers for amount and nonce, the
\* hash omitted or the batch's transaction hash.
RecoverInputs ==
    {a \in [user : Addr, amount : Amounts, nonce : Nonces,
            batchId : BatchIds, txHash : TxHashes] :
        /\ a.txHash \in {NoTx, TxOf(a.batchId)}
        /\ a.batchId = BatchOfAmount(a.amount)
        /\ a.amount.t = "num"
        /\ a.nonce.t = "num"}

LedgerRecover(a) ==
    /\ now < MaxLedgerOps
    /\ now' = now + 1
    /\ RecoverBatchedWithdrawal(a.user, a.amount, a.nonce, a.batchId, a.txHash)
    /\ UNCHANGED <<calls, appVars>>

NextLedger ==
    \/ \E w \in SaveInputs : LedgerSave(w)
    \/ \E user \in Addr, nonce \in Nonces : LedgerRemove(user, nonce)
    \/ \E a \in RecoverInputs : LedgerRecover(a)

SpecLedger == InitLedger /\ [][NextLedger]_vars

\* The lists an earlier session has left in localStorage: up to two
\* entries of different keys, saved by the batch handler for accounts as
\* the wallet writes them.
StoredLists ==
    LET E == {Stamp(w, 0) : w \in {x \in SaveInputs : ~x.user.uc}}
    IN {<<>>} \cup {<<e>> : e \in E}
         \cup {<<p[1], p[2]>> : p \in {q \in E \X E : KeyOf(q[1]) # KeyOf(q[2])}}

\* The ledger functions called on a list that is already there.
InitStored == storage \in StoredLists /\ InitPage

SpecStored == InitStored /\ [][NextLedger]_vars

\* ------------------------------------ the ledger shared by several pages
\* A page calls saveBatchedWithdrawal(w) or removeBatchedWithdrawal(w.user,
\* w.nonce): getBatchedWithdrawals reads the stored list.  Nothing in the
\* functions keeps another page of the origin from reading or writing the
\* item before this call writes.
CallRead(c, op, w) ==
    /\ calls[c].pc = "idle"
    /\ now < MaxLedgerOps
    /\ now' = now + 1
    /\ calls' = [calls EXCEPT ![c] = [pc |-> "read", op |-> op, w |-> w,
                                      read |-> storage]]
    /\ ev' = Event("read", "shared", w.user, w.nonce, w, TRUE)
    /\ UNCHANGED <<storage, appVars>>

\* The call computes the new list from the one it has read and writes it
\* with localStorage.setItem; the event's flag tells that the item was
\* still what the call had read.
CallWrite(c) ==
    /\ calls[c].pc = "read"
    /\ LET k == calls[c]
       IN /\ storage' = IF k.op = "save"
                        THEN saveBatchedWithdrawal(k.read, k.w, now)
                        ELSE removeBatchedWithdrawal(k.read, k.w.user, k.w.nonce)
          /\ ev' = Event(k.op, "shared", k.w.user, k.w.nonce, k.w,
                         k.read = storage)
    /\ calls' = [calls EXCEPT ![c] = IdleCall]
    /\ UNCHANGED <<now, appVars>>

\* The page is closed or crashes between the read and the write.
CallCrash(c) ==
    /\ calls[c].pc = "read"
    /\ calls' = [calls EXCEPT ![c] = IdleCall]
    /\ ev' = Event("crash", "shared", calls[c].w.user, calls[c].w.nonce,
                   calls[c].w, FALSE)
    /\ UNCHANGED <<storage, now, appVars>>

\* The arguments of removeBatchedWithdrawal as a withdrawal without
\* the other fields.
RemoveInputs ==
    {[NoWithdrawal EXCEPT !.user = user, !.nonce = nonce] :
        user \in Addr, nonce \in Nonces}

NextShared ==
    \/ \E c \in Contexts, w \in SaveInputs : CallRead(c, "save", w)
    \/ \E c \in Contexts, w \in RemoveInputs : CallRead(c, "remove", w)
    \/ \E c \in Contexts : CallWrite(c)
    \/ \E c \in Contexts : CallCrash(c)

SpecShared == InitLedger /\ [][NextShared]_vars

-----------------------------------------------------------------------------
\* ------------------------------------------------------------ environment
MaxQueue == 2

\* What relay.bridge.getProof gives: an exception (HTTP 404 or another
\* error) or a response with the fields the handlers read.
ProofResults ==
    {r \in [thrown : {"none", "404", "other"}, success : BOOLEAN,
            proof : BOOLEAN, status : {"none", "pending", "already_processed"},
            batchId : 0..MaxBatch] :
        /\ (r.thrown # "none") =>
              (~r.success /\ ~r.proof /\ r.status = "none" /\ r.batchId = 0)
        /\ r.proof <=> (r.batchId # 0)}

\* The relay's pending withdrawal q as the pending list shows it.
Delivered(q) ==
    [user |-> [id |-> q.user, uc |-> relayFmt.uc],
     amount |-> Str(q.amount),
     nonce |-> [t |-> relayFmt.nt, v |-> q.nonce],
     timestamp |-> q.timestamp]

\* relay.bridge.getPendingWithdrawals().withdrawals
PendingList == [i \in 1..Len(relayQueue) |-> Delivered(relayQueue[i])]

InQueue(id, nonce) ==
    \E i \in 1..Len(relayQueue) :
        relayQueue[i].user = id /\ relayQueue[i].nonce = nonce

\* The relay takes a withdrawal request in.
Accept(id, amount, nonce) ==
    Append(relayQueue,
           [user |-> id, amount |-> amount, nonce |-> nonce, timestamp |-> now])

CanAccept(id, nonce) == Len(relayQueue) < MaxQueue /\ ~InQueue(id, nonce)

\* No handler is between two of its awaits.
Quiet ==
    /\ req.pc = "idle" /\ wd.pc = "idle" /\ xfer.pc = "idle"
    /\ flow.pc = "idle" /\ polls = <<>>

\* One stimulus: a click, a console call, a timer, another client.  The
\* user lets a handler finish before the next stimulus.
Stimulus == Quiet /\ now < MaxOps /\ now' = now + 1

-----------------------------------------------------------------------------
\* ------------------------------------------------------ session lifecycle
\* The two builds of the client in the repository.
Builds == {"app.js", "part_002"}

\* The page as it is loaded for the first time.
Start ==
    /\ storage = <<>>
    /\ calls = [c \in Contexts |-> IdleCall]
    /\ now = 0
    /\ ev = NoEvent
    /\ bootAt = 0
    /\ connectedAddress = NoAddr
    /\ gunKeypair = FALSE
    /\ currentWithdrawalNonce = NoVal
    /\ currentWithdrawalAmount = NoVal
    /\ req = IdleTab
    /\ wd = IdleTab
    /\ xfer = IdleTransfer
    /\ disabled = [b \in Buttons |-> FALSE]
    /\ flow = IdleFlow
    /\ claimBtns = <<>>
    /\ checkBtns = <<>>
    /\ submitHidden = TRUE
    /\ timers = {}
    /\ pollButtons = {}
    /\ polls = <<>>
    /\ relayFmt \in [uc : {TRUE}, nt : {"num", "str"}]
    /\ relayQueue = <<>>
    /\ nextBatchId = 1

Init ==
    /\ Start
    /\ build = "app.js"

\* The addresses eth_requestAccounts gives: lower-case.
WalletAccounts == {a \in Addr : ~a.uc}

\* connectWallet: the wallet gives the account, deriveGunKeypair succeeds
\* or fails.
connectWallet(a, derived) ==
    /\ Stimulus
    /\ connectedAddress = NoAddr
    /\ connectedAddress' = a
    /\ gunKeypair' = derived
    /\ UNCHANGED bootAt
    /\ ev' = Event("connect", "connectWallet", a, NoVal, NoWithdrawal, derived)
    /\ UNCHANGED <<calls, ledgerVars, currentVars, tabVars, listVars, pollVars, relayVars>>

\* The page is loaded anew: the module state and the DOM start over, the
\* stored list and the relay stay.
Restart ==
    /\ now < MaxOps /\ now' = now + 1
    /\ bootAt' = now
    /\ connectedAddress' = NoAddr
    /\ gunKeypair' = FALSE
    /\ currentWithdrawalNonce' = NoVal
    /\ currentWithdrawalAmount' = NoVal
    /\ req' = IdleTab
    /\ wd' = IdleTab
    /\ xfer' = IdleTransfer
    /\ disabled' = [b \in Buttons |-> FALSE]
    /\ flow' = IdleFlow
    /\ claimBtns' = <<>>
    /\ checkBtns' = <<>>
    /\ submitHidden' = TRUE
    /\ timers' = {}
    /\ pollButtons' = {}
    /\ polls' = <<>>
    /\ ev' = Event("restart", "page", NoAddr, NoVal, NoWithdrawal, FALSE)
    /\ UNCHANGED <<calls, ledgerVars, relayVars>>

\* window.recoverBatchedWithdrawal called from the console.
Recover(a) ==
    /\ Stimulus
    /\ RecoverBatchedWithdrawal(a.user, a.amount, a.nonce, a.batchId, a.txHash)
    /\ UNCHANGED <<calls, sessionVars, currentVars, tabVars, listVars, pollVars, relayVars>>

\* Another client's withdrawal request reaches the relay.
OtherRequest(id, amount, nonce) ==
    /\ Stimulus
    /\ CanAccept(id, nonce)
    /\ relayQueue' = Accept(id, amount, nonce)
    /\ ev' = Event("accepted", "relay", [id |-> id, uc |-> FALSE], Num(nonce),
                   NoWithdrawal, TRUE)
    /\ UNCHANGED <<calls, ledgerVars, sessionVars, currentVars, tabVars, listVars,
                   pollVars, fixedVars, nextBatchId>>

-----------------------------------------------------------------------------
\* ----------------------------------------------------------- withdraw tab
Msg(e, kind) == [e EXCEPT !.msg = kind]

\* BigInt(nonceInput.value || Date.now().toString()): the typed nonce, or
\* the clock's value, a number above every nonce a user types.
DateNonce(t) == MaxNonce + 1 + t
nonceOfInput(typed, t) == IF typed = 0 THEN DateNonce(t) ELSE typed

\* A JS value in a condition: null, 0 and the empty string are falsy.
Truthy(x) == x.t # "null" /\ ~(x.t \in {"num", "big"} /\ x.v = 0)

\* The nonce handleRequestWithdraw starts with: app.js and part_001 read
\* the input field; part_002 has no such field and has no nonce yet.
FirstNonce(typed, t) ==
    IF build # "part_002" THEN Big(nonceOfInput(typed, t)) ELSE NoVal

\* The nonce written into the message that is signed: app.js writes
\* nonce.toString(); part_002 writes nextNonce when it is truthy and leaves
\* the field out otherwise.
MessageNonce_Always(nonce) == toString(nonce)
MessageNonce(nonce) ==
    IF build # "part_002" THEN toString(nonce)
    ELSE IF Truthy(nonce) THEN nonce ELSE NoVal

\* The nonce field of the payload of relay.bridge.withdraw, built after the
\* signatures in the same way.
PayloadNonce(nonce) ==
    IF build # "part_002" THEN toString(nonce)
    ELSE IF Truthy(nonce) THEN nonce ELSE NoVal

\* The withdrawal object the relay puts in its answer when it echoes the
\* request it has queued under nonce q.
Echo(user, amount, q) ==
    [user |-> user, amount |-> Str(amount),
     nonce |-> [t |-> relayFmt.nt, v |-> q],
     batchId |-> 0, txHash |-> NoTx, timestamp |-> 0]

\* What handleRequestWithdraw keeps as currentWithdrawalNonce: app.js its
\* own nonce; part_002 result.withdrawal?.nonce || result.nonce as a
\* BigInt, or null when that is falsy.
KeptNonce(nonce, withdrawal) ==
    IF build # "part_002" THEN nonce
    ELSE IF Truthy(withdrawal.nonce) THEN Big(withdrawal.nonce.v) ELSE NoVal

\* What handleRequestWithdraw keeps as currentWithdrawalAmount: amountWei;
\* part_001 has no such variable.
KeptAmount(amount) == IF build = "part_001" THEN NoVal ELSE amount

\* ethers.isAddress and ethers.getAddress (the checksum form) on a typed
\* recipient; NoAddr stands for an empty or malformed string.
isAddress(a) == a.id # 0
getAddress(a) == [a EXCEPT !.uc = TRUE]

\* The handlers' first guard: !connectedAddress || !gunKeypair.
NotReady_AddressOnly == connectedAddress = NoAddr
NotReady == connectedAddress = NoAddr \/ ~gunKeypair

\* !balanceResult.success || BigInt(balanceResult.balance) < amountWei.
Insufficient_SuccessOnly(res, balance, amount) == res # "ok"
Insufficient(res, balance, amount) == res # "ok" \/ balance < amount.v

\* What relay.bridge.getBalance gives: an exception, no success, or the
\* balance of the account.
BalanceAnswers ==
    {b \in [res : {"throw", "fail", "ok"}, balance : 0..MaxAmount] :
        b.res # "ok" => b.balance = 0}

\* The message handleRequestWithdraw signs.
WithdrawMessage(amount, nonce) ==
    [ethereumAddress |-> toLowerCase(connectedAddress), to |-> NoAddr,
     amount |-> toString(amount), nonce |-> MessageNonce(nonce),
     timestamp |-> now, type |-> "withdrawal"]

\* The message handleTransfer signs.
TransferMessage_RawTo(to, amount) ==
    [ethereumAddress |-> toLowerCase(connectedAddress), to |-> to,
     amount |-> toString(amount), nonce |-> NoVal,
     timestamp |-> now, type |-> "transfer"]
TransferMessage(to, amount) ==
    [ethereumAddress |-> toLowerCase(connectedAddress),
     to |-> toLowerCase(getAddress(to)),
     amount |-> toString(amount), nonce |-> NoVal,
     timestamp |-> now, type |-> "transfer"]

\* The public key of the SEA pair deriveGunKeypair derives for an account.
PubOf(a) == a.id

\* createDualSignatures throws before it signs: !gunKeypair || !signer
\* (connectWallet sets the signer with connectedAddress).
SignaturesThrow == ~gunKeypair \/ connectedAddress = NoAddr

\* createDualSignatures(message) where it does not throw: SEA.sign with
\* gunKeypair, signer.signMessage with the wallet's signer, and
\* gunKeypair.pub.
createDualSignatures(message) ==
    [seaSignature |-> [over |-> message, by |-> PubOf(connectedAddress)],
     ethSignature |-> [over |-> message, by |-> connectedAddress.id],
     gunPubKey |-> PubOf(connectedAddress)]

\* The object handleRequestWithdraw hands to relay.bridge.withdraw.
WithdrawPayload ==
    [user |-> connectedAddress, to |-> NoAddr, amount |-> toString(req.amount),
     nonce |-> PayloadNonce(req.nonce), message |-> req.message,
     seaSignature |-> req.auth.seaSignature,
     ethSignature |-> req.auth.ethSignature,
     gunPubKey |-> req.auth.gunPubKey]

\* The object handleTransfer hands to relay.bridge.transfer.
TransferPayload ==
    [user |-> connectedAddress, to |-> xfer.to, amount |-> toString(xfer.amount),
     nonce |-> NoVal, message |-> xfer.message,
     seaSignature |-> xfer.auth.seaSignature,
     ethSignature |-> xfer.auth.ethSignature,
     gunPubKey |-> xfer.auth.gunPubKey]

\* handleRequestWithdraw, up to its first await: the click with the amount
\* and nonce typed in (0 for an empty or invalid field, and for part_002,
\* which has no nonce field).
RequestClick(amountIn, nonceIn) ==
    /\ Stimulus
    /\ req.pc = "idle"
    /\ build = "part_002" => nonceIn = 0
    /\ ~disabled["requestWithdrawBtn"]
    /\ IF NotReady
       THEN /\ ev' = Msg(Event("guard", "handleRequestWithdraw",
                               connectedAddress, NoVal, NoWithdrawal, FALSE),
                         "error")
            /\ UNCHANGED <<req, disabled>>
       ELSE IF amountIn <= 0
       THEN /\ ev' = Msg(Event("invalid", "handleRequestWithdraw",
                               connectedAddress, NoVal, NoWithdrawal, FALSE),
                         "error")
            /\ UNCHANGED <<req, disabled>>
       ELSE /\ req' = [IdleTab EXCEPT !.pc = "balance",
                                       !.amount = Big(amountIn),
                                       !.nonce = FirstNonce(nonceIn, now)]
            /\ disabled' = [disabled EXCEPT !["requestWithdrawBtn"] = TRUE]
            /\ ev' = Event("click", "handleRequestWithdraw", connectedAddress,
                           FirstNonce(nonceIn, now), NoWithdrawal, TRUE)
    /\ UNCHANGED <<calls, xfer, ledgerVars, sessionVars, currentVars, wd, listVars, pollVars,
                   relayVars>>

\* relay.bridge.getBalance answers: an exception, no success, or the
\* balance, which is too little or enough.
RequestBalance(res, balance) ==
    /\ req.pc = "balance"
    /\ CASE res = "throw" ->
              /\ req' = IdleTab
              /\ UNCHANGED disabled
              /\ ev' = Msg(Event("balance", "handleRequestWithdraw",
                                 connectedAddress, req.nonce, NoWithdrawal,
                                 FALSE), "error")
         [] res # "throw" /\ Insufficient(res, balance, req.amount) ->
              /\ req' = IdleTab
              /\ disabled' = [disabled EXCEPT !["requestWithdrawBtn"] = FALSE]
              /\ ev' = Msg(Event("balance", "handleRequestWithdraw",
                                 connectedAddress, req.nonce, NoWithdrawal,
                                 FALSE), "error")
         [] res # "throw" /\ ~Insufficient(res, balance, req.amount) ->
              /\ req' = [req EXCEPT !.pc = IF build = "part_002" THEN "nonce"
                                           ELSE "sign",
                                    !.balance = Big(balance)]
              /\ UNCHANGED disabled
              /\ ev' = Event("balance", "handleRequestWithdraw",
                             connectedAddress, req.nonce, NoWithdrawal, TRUE)
    /\ UNCHANGED <<calls, xfer, ledgerVars, now, sessionVars, currentVars, wd, listVars,
                   pollVars, relayVars>>

\* relay.bridge.getNonce answers (part_002): n is the next nonce of the
\* account, one the relay has not queued, or 0 when the call throws,
\* reports no success or gives a falsy nextNonce; then the handler goes on
\* without a nonce.
RequestNonce(n) ==
    /\ req.pc = "nonce"
    /\ n # 0 => ~InQueue(connectedAddress.id, n)
    /\ LET nextNonce == IF n = 0 THEN NoVal ELSE [t |-> relayFmt.nt, v |-> n]
       IN /\ req' = [req EXCEPT !.pc = "sign", !.nonce = nextNonce]
          /\ ev' = Event("nonce", "handleRequestWithdraw", connectedAddress,
                         nextNonce, NoWithdrawal, n # 0)
    /\ UNCHANGED <<calls, xfer, ledgerVars, now, sessionVars, currentVars, wd, disabled,
                   listVars, pollVars, relayVars>>

\* The message is built and createDualSignatures is called: both
\* signatures are made, or the keypair is missing or the user rejects and
\* it throws.
RequestSign(signed) ==
    /\ req.pc = "sign"
    /\ IF signed /\ ~SignaturesThrow
       THEN /\ LET message == WithdrawMessage(req.amount, req.nonce)
               IN req' = [req EXCEPT !.pc = "submit",
                                     !.msg = MessageNonce(req.nonce),
                                     !.message = message,
                                     !.auth = createDualSignatures(message)]
            /\ ev' = Event("sign", "handleRequestWithdraw", connectedAddress,
                           req.nonce, NoWithdrawal, TRUE)
       ELSE /\ req' = IdleTab
            /\ ev' = Msg(Event("sign", "handleRequestWithdraw",
                               connectedAddress, req.nonce, NoWithdrawal,
                               FALSE), "error")
    /\ UNCHANGED <<calls, xfer, ledgerVars, now, sessionVars, currentVars, wd, disabled,
                   listVars, pollVars, relayVars>>

\* The handler goes on after relay.bridge.withdraw: the call returned and
\* result.success is truthy; otherwise it is in its catch block.
WentThrough_NoSuccessTest(res) == res \in {"accepted", "rejected"}
WentThrough(res) == res = "accepted"

\* relay.bridge.withdraw answers: accepted, rejected (success false),
\* an exception, or accepted with the answer lost on the way.  The relay
\* queues the request under the payload's nonce or, when the payload has
\* none, under a nonce g of its own; echoed tells that its answer carries
\* the queued withdrawal.  The event holds the payload's nonce, the
\* answer's withdrawal and whether the call gave success.
RequestSubmit(res, g, echoed) ==
    /\ req.pc = "submit"
    /\ LET payload == PayloadNonce(req.nonce)
           q == IF payload = NoVal THEN g ELSE payload.v
           took == res \in {"accepted", "lost"}
           withdrawal == IF res = "accepted" /\ echoed
                         THEN Echo(connectedAddress, req.amount.v, q)
                         ELSE NoWithdrawal
       IN /\ (payload # NoVal \/ ~took) => g = 1
          /\ res # "accepted" => echoed
          /\ took => CanAccept(connectedAddress.id, q)
          /\ relayQueue' = IF took
                           THEN Accept(connectedAddress.id, req.amount.v, q)
                           ELSE relayQueue
          /\ IF WentThrough(res)
             THEN /\ currentWithdrawalNonce' = KeptNonce(req.nonce, withdrawal)
                  /\ currentWithdrawalAmount' = KeptAmount(req.amount)
                  /\ disabled' = [disabled EXCEPT !["requestWithdrawBtn"] = FALSE]
                  /\ ev' = [Msg(Event("accepted", "handleRequestWithdraw",
                                      connectedAddress, payload, withdrawal,
                                      TRUE), "success")
                            EXCEPT !.sent = WithdrawPayload,
                                   !.status = IF res = "accepted"
                                              THEN "success" ELSE "failure"]
             ELSE /\ UNCHANGED <<currentVars, disabled>>
                  /\ ev' = [Msg(Event("rejected", "handleRequestWithdraw",
                                      connectedAddress, payload, NoWithdrawal,
                                      FALSE), "error")
                            EXCEPT !.sent = WithdrawPayload,
                                   !.status = "failure"]
    /\ req' = IdleTab
    /\ UNCHANGED <<calls, xfer, ledgerVars, now, sessionVars, wd, listVars, pollVars, fixedVars,
                   nextBatchId>>

\* What gunL2Bridge.withdraw(...) and tx.wait() give.
SendResults == {"sent", "throw"}
WaitResults == {"status1", "status0", "throw"}

\* The proof result lets a handler go on to the on-chain call.
HasProof_SuccessOnly(r) == r.success
HasProof(r) == r.success /\ r.proof

\* handleCheckProofAndWithdraw finds nothing to process: part_001 tests
\* the account and the nonce, the later builds the saved amount as well.
NothingToProcess ==
    \/ connectedAddress = NoAddr
    \/ IF build = "part_001" THEN ~Truthy(currentWithdrawalNonce)
       ELSE currentWithdrawalNonce = NoVal \/ currentWithdrawalAmount = NoVal

\* The amount handleCheckProofAndWithdraw works with: the saved amount;
\* in part_001 ethers.parseEther(amountInput.value || '0') of the amount
\* field as it is at the click (typed is 0 for the empty field).
ClaimAmount(typed) ==
    IF build = "part_001" THEN Big(typed) ELSE currentWithdrawalAmount

\* handleCheckProofAndWithdraw, up to its first await; typed is what the
\* amount field of the request form holds (part_001 reads it).
WithdrawBegin(typed) ==
    /\ wd.pc = "idle"
    /\ build # "part_001" => typed = 0
    /\ ~disabled["checkProofBtn"]
    /\ IF NothingToProcess
       THEN /\ ev' = Msg(Event("guard", "handleCheckProofAndWithdraw",
                               connectedAddress, NoVal, NoWithdrawal, FALSE),
                         "error")
            /\ UNCHANGED <<wd, disabled>>
       ELSE /\ wd' = [IdleTab EXCEPT !.pc = "proof",
                                      !.amount = ClaimAmount(typed),
                                      !.nonce = currentWithdrawalNonce]
            /\ disabled' = [disabled EXCEPT !["checkProofBtn"] = TRUE]
            /\ ev' = Event("click", "handleCheckProofAndWithdraw",
                           connectedAddress, currentWithdrawalNonce,
                           NoWithdrawal, TRUE)
    /\ UNCHANGED <<calls, xfer, ledgerVars, sessionVars, currentVars, req, listVars, pollVars,
                   relayVars>>

WithdrawClickWith(typed) == Stimulus /\ WithdrawBegin(typed)
WithdrawClick == WithdrawClickWith(0)

\* The proof lookup answers; with a proof the handler calls
\* gunL2Bridge.withdraw with the saved amount and the current nonce.
WithdrawProof(r) ==
    /\ wd.pc = "proof"
    /\ LET e == [Event("proof", "handleCheckProofAndWithdraw",
                       connectedAddress, currentWithdrawalNonce, NoWithdrawal,
                       HasProof(r)) EXCEPT !.status = r.status]
       IN CASE r.thrown # "none" ->
                 /\ wd' = IdleTab
                 /\ UNCHANGED disabled
                 /\ ev' = Msg(e, IF r.thrown = "404" /\ build # "part_001"
                                 THEN "info" ELSE "error")
            [] r.thrown = "none" /\ ~HasProof(r) ->
                 /\ wd' = IdleTab
                 /\ disabled' = [disabled EXCEPT !["checkProofBtn"] = FALSE]
                 /\ ev' = Msg(e, IF build = "part_001" THEN "error" ELSE "info")
            [] r.thrown = "none" /\ HasProof(r) ->
                 /\ wd' = [wd EXCEPT !.pc = "send",
                                     !.nonce = currentWithdrawalNonce,
                                     !.batchId = r.batchId]
                 /\ UNCHANGED disabled
                 /\ ev' = [e EXCEPT !.chain = TRUE]
    /\ UNCHANGED <<calls, xfer, ledgerVars, now, sessionVars, currentVars, req, listVars,
                   pollVars, relayVars>>

\* gunL2Bridge.withdraw returns the transaction or throws (rejected by the
\* user, no funds for gas, a revert at estimation).
WithdrawSend(res) ==
    /\ wd.pc = "send"
    /\ IF res = "sent"
       THEN /\ wd' = [wd EXCEPT !.pc = "wait"]
            /\ ev' = Msg(Event("sent", "handleCheckProofAndWithdraw",
                               connectedAddress, wd.nonce, NoWithdrawal, TRUE),
                         "info")
       ELSE /\ wd' = IdleTab
            /\ ev' = Msg(Event("txThrow", "handleCheckProofAndWithdraw",
                               connectedAddress, wd.nonce, NoWithdrawal, FALSE),
                         "error")
    /\ UNCHANGED <<calls, xfer, ledgerVars, now, sessionVars, currentVars, req, disabled,
                   listVars, pollVars, relayVars>>

\* tx.wait() gives the receipt or throws; any receipt ends the withdrawal.
WithdrawWait(res) ==
    /\ wd.pc = "wait"
    /\ IF res = "throw"
       THEN /\ ev' = Msg(Event("txThrow", "handleCheckProofAndWithdraw",
                               connectedAddress, wd.nonce, NoWithdrawal, FALSE),
                         "error")
            /\ UNCHANGED <<currentVars, disabled>>
       ELSE /\ ev' = Msg([Event("receipt", "handleCheckProofAndWithdraw",
                                connectedAddress, wd.nonce, NoWithdrawal,
                                res = "status1") EXCEPT !.status = res],
                         "success")
            /\ currentWithdrawalNonce' = NoVal
            /\ currentWithdrawalAmount' = NoVal
            /\ disabled' = [disabled EXCEPT !["checkProofBtn"] = FALSE]
    /\ wd' = IdleTab
    /\ UNCHANGED <<calls, xfer, ledgerVars, now, sessionVars, req, listVars, pollVars, relayVars>>

-----------------------------------------------------------------------------
\* ----------------------------------------------------------- transfer tab
\* handleTransfer, up to its first await: the click with the recipient and
\* the amount typed in.
TransferClick(toIn, amountIn) ==
    /\ Stimulus
    /\ xfer.pc = "idle"
    /\ ~disabled["transferBtn"]
    /\ IF NotReady
       THEN /\ ev' = Msg(Event("guard", "handleTransfer", connectedAddress,
                               NoVal, NoWithdrawal, FALSE), "error")
            /\ UNCHANGED <<xfer, disabled>>
       ELSE IF ~isAddress(toIn) \/ amountIn <= 0
       THEN /\ ev' = Msg(Event("invalid", "handleTransfer", connectedAddress,
                               NoVal, NoWithdrawal, FALSE), "error")
            /\ UNCHANGED <<xfer, disabled>>
       ELSE /\ xfer' = [IdleTransfer EXCEPT !.pc = "balance", !.to = toIn,
                                            !.amount = Big(amountIn)]
            /\ disabled' = [disabled EXCEPT !["transferBtn"] = TRUE]
            /\ ev' = Event("click", "handleTransfer", connectedAddress, NoVal,
                           NoWithdrawal, TRUE)
    /\ UNCHANGED <<calls, ledgerVars, sessionVars, currentVars, req, wd, listVars,
                   pollVars, relayVars>>

\* relay.bridge.getBalance answers.
TransferBalance(res, balance) ==
    /\ xfer.pc = "balance"
    /\ CASE res = "throw" ->
              /\ xfer' = IdleTransfer
              /\ UNCHANGED disabled
              /\ ev' = Msg(Event("balance", "handleTransfer", connectedAddress,
                                 NoVal, NoWithdrawal, FALSE), "error")
         [] res # "throw" /\ Insufficient(res, balance, xfer.amount) ->
              /\ xfer' = IdleTransfer
              /\ disabled' = [disabled EXCEPT !["transferBtn"] = FALSE]
              /\ ev' = Msg(Event("balance", "handleTransfer", connectedAddress,
                                 NoVal, NoWithdrawal, FALSE), "error")
         [] res # "throw" /\ ~Insufficient(res, balance, xfer.amount) ->
              /\ xfer' = [xfer EXCEPT !.pc = "sign", !.balance = Big(balance)]
              /\ UNCHANGED disabled
              /\ ev' = Event("balance", "handleTransfer", connectedAddress,
                             NoVal, NoWithdrawal, TRUE)
    /\ UNCHANGED <<calls, ledgerVars, now, sessionVars, currentVars, req, wd, listVars,
                   pollVars, relayVars>>

\* The message is built and createDualSignatures is called.
TransferSign(signed) ==
    /\ xfer.pc = "sign"
    /\ IF signed /\ ~SignaturesThrow
       THEN /\ LET message == TransferMessage(xfer.to, xfer.amount)
               IN xfer' = [xfer EXCEPT !.pc = "submit",
                                       !.message = message,
                                       !.auth = createDualSignatures(message)]
            /\ ev' = Event("sign", "handleTransfer", connectedAddress, NoVal,
                           NoWithdrawal, TRUE)
       ELSE /\ xfer' = IdleTransfer
            /\ ev' = Msg(Event("sign", "handleTransfer", connectedAddress,
                               NoVal, NoWithdrawal, FALSE), "error")
    /\ UNCHANGED <<calls, ledgerVars, now, sessionVars, currentVars, req, wd, disabled,
                   listVars, pollVars, relayVars>>

\* relay.bridge.transfer answers: done, success false, or an exception.
TransferSubmit(res) ==
    /\ xfer.pc = "submit"
    /\ IF res = "accepted"
       THEN /\ disabled' = [disabled EXCEPT !["transferBtn"] = FALSE]
            /\ ev' = [Msg(Event("accepted", "handleTransfer", connectedAddress,
                                NoVal, NoWithdrawal, TRUE), "success")
                      EXCEPT !.sent = TransferPayload]
       ELSE /\ UNCHANGED disabled
            /\ ev' = [Msg(Event("rejected", "handleTransfer", connectedAddress,
                                NoVal, NoWithdrawal, FALSE), "error")
                      EXCEPT !.sent = TransferPayload]
    /\ xfer' = IdleTransfer
    /\ UNCHANGED <<calls, ledgerVars, now, sessionVars, currentVars, req, wd, listVars,
                   pollVars, relayVars>>

-----------------------------------------------------------------------------
\* ------------------------------------------------------------ pending tab
\* A .claim-btn as the list renders it for a stored entry: the data
\* attributes are the template's strings.
ClaimButton(w) ==
    [amount |-> Str(w.amount.v), nonce |-> Str(w.nonce.v), batch |-> w.batchId,
     disabled |-> FALSE]

\* A .check-proof-btn as the list renders it for a pending withdrawal.
CheckButton(w) ==
    [amount |-> Str(w.amount.v), nonce |-> Str(w.nonce.v), disabled |-> FALSE,
     text |-> "Check Proof"]

\* result.withdrawals.filter(w => w.user.toLowerCase() ===
\* connectedAddress.toLowerCase())
RECURSIVE UserWithdrawals(_, _)
UserWithdrawals(list, a) ==
    IF list = <<>> THEN <<>>
    ELSE IF toLowerCase(Head(list).user) = toLowerCase(a)
         THEN <<Head(list)>> \o UserWithdrawals(Tail(list), a)
         ELSE UserWithdrawals(Tail(list), a)

\* The polls in flight after every interval was cleared: each keeps the
\* attempts count of its own loop.
Attempts(id) ==
    IF \E t \in timers : t.id = id
    THEN (CHOOSE t \in timers : t.id = id).attempts
    ELSE 0

Orphaned(ps, ids) ==
    [k \in 1..Len(ps) |->
        IF ps[k].own /\ ps[k].id \in ids
        THEN [ps[k] EXCEPT !.own = FALSE, !.att = Attempts(ps[k].id)]
        ELSE ps[k]]

\* Object.values(window.proofPollingIntervals).forEach(interval =>
\* clearInterval(interval)); window.proofPollingIntervals = {}: the loops
\* that go on.
ClearIntervals_None(ts) == ts
ClearIntervals(ts) == {}

\* The handler of kind has returned: the batch handler's finally restores
\* its button.
Finally(d, kind) ==
    IF kind = "submit" THEN [d EXCEPT !["submitBatchBtn"] = FALSE] ELSE d

\* loadPendingWithdrawals up to its first await, called by the handler of
\* kind whose step leaves the event e: without a connected account it only
\* shows an error; otherwise it clears every polling interval and the
\* button references, sets the refresh button loading and asks the relay
\* for the pending list.
LoadBegin(kind, e) ==
    IF connectedAddress = NoAddr
    THEN /\ ev' = Msg(e, "error")
         /\ flow' = IdleFlow
         /\ disabled' = Finally(disabled, kind)
         /\ UNCHANGED pollVars
    ELSE /\ ev' = e
         /\ flow' = [IdleFlow EXCEPT !.kind = kind, !.pc = "loadPending",
                                     !.orig = disabled["refreshWithdrawalsBtn"]]
         /\ disabled' = [disabled EXCEPT !["refreshWithdrawalsBtn"] = TRUE]
         /\ timers' = ClearIntervals(timers)
         /\ pollButtons' = {}
         /\ polls' = Orphaned(polls, {t.id : t \in timers \ timers'})

\* The refresh button's handler up to its first await.
RefreshBegin ==
    /\ ~disabled["refreshWithdrawalsBtn"]
    /\ LoadBegin("load", Event("click", "loadPendingWithdrawals",
                               connectedAddress, NoVal, NoWithdrawal,
                               connectedAddress # NoAddr))
    /\ UNCHANGED <<calls, xfer, ledgerVars, sessionVars, currentVars, req, wd, claimBtns,
                   checkBtns, submitHidden, relayVars>>

\* A click on the refresh button.
RefreshClick == Stimulus /\ RefreshBegin

\* getPendingWithdrawals answers inside loadPendingWithdrawals: an
\* exception ends the load in its catch; otherwise the list element is
\* emptied and rendered anew from the stored entries of the connected
\* account and, when the relay lists withdrawals of the account, the load
\* goes on to ask the bridge state.
LoadPending(res) ==
    /\ flow.pc = "loadPending"
    /\ LET batched == getUserBatchedWithdrawals(storage, connectedAddress)
           hasPending == res = "ok" /\ Len(PendingList) > 0
           hasBatched == Len(batched) > 0
           userWithdrawals ==
               IF hasPending
               THEN UserWithdrawals(PendingList, connectedAddress)
               ELSE <<>>
           e == Event("rendered", "loadPendingWithdrawals", connectedAddress,
                      NoVal, NoWithdrawal, res # "throw")
           restored == [disabled EXCEPT
                           !["refreshWithdrawalsBtn"] = flow.orig]
       IN IF res = "throw"
          THEN /\ ev' = Msg(e, "error")
               /\ flow' = IdleFlow
               /\ disabled' = Finally(disabled, flow.kind)
               /\ UNCHANGED <<claimBtns, checkBtns, submitHidden, pollButtons>>
          ELSE /\ ev' = e
               /\ claimBtns' = [i \in 1..Len(batched) |-> ClaimButton(batched[i])]
               /\ checkBtns' = <<>>
               /\ pollButtons' = {[b EXCEPT !.att = FALSE] : b \in pollButtons}
               /\ submitHidden' = ~hasPending
               /\ IF Len(userWithdrawals) > 0
                  THEN /\ flow' = [flow EXCEPT !.pc = "loadState",
                                               !.list = userWithdrawals]
                       /\ disabled' = restored
                  ELSE /\ flow' = IdleFlow
                       /\ disabled' = Finally(restored, flow.kind)
    /\ UNCHANGED <<calls, xfer, ledgerVars, now, sessionVars, currentVars, req, wd, timers,
                   polls, relayVars>>

\* getState answers inside loadPendingWithdrawals: an exception ends the
\* load in its catch, anything else renders a Check Proof button for each
\* pending withdrawal of the account.
LoadState(res) ==
    /\ flow.pc = "loadState"
    /\ IF res = "throw"
       THEN /\ ev' = Msg(Event("rendered", "loadPendingWithdrawals",
                               connectedAddress, NoVal, NoWithdrawal, FALSE),
                         "error")
            /\ UNCHANGED checkBtns
       ELSE /\ ev' = Event("rendered", "loadPendingWithdrawals",
                           connectedAddress, NoVal, NoWithdrawal, TRUE)
            /\ checkBtns' = checkBtns \o
                   [i \in 1..Len(flow.list) |-> CheckButton(flow.list[i])]
    /\ flow' = IdleFlow
    /\ disabled' = Finally(disabled, flow.kind)
    /\ UNCHANGED <<calls, xfer, ledgerVars, now, sessionVars, currentVars, req, wd, claimBtns,
                   submitHidden, pollVars, relayVars>>

\* The batch handler's forEach over the pending list it fetched: one
\* saveBatchedWithdrawal per withdrawal, with the batch's id and hash and
\* the relay's timestamp (the clock when that is missing or zero).
RECURSIVE SaveAll(_, _, _, _, _)
SaveAll(withdrawals, list, batchId, txHash, t) ==
    IF list = <<>> THEN withdrawals
    ELSE LET w == Head(list)
             withdrawal ==
                 [user |-> w.user, amount |-> w.amount, nonce |-> w.nonce,
                  batchId |-> batchId, txHash |-> txHash,
                  timestamp |-> IF w.timestamp = 0 THEN t ELSE w.timestamp]
         IN SaveAll(saveBatchedWithdrawal(withdrawals, withdrawal, t),
                    Tail(list), batchId, txHash, t)

\* The submitBatchBtn handler's only condition for writing the records.
SubmitOk_Always(res) == TRUE

SubmitOk(res) == res = "ok"

\* A click on the visible submit button: the handler sets it loading and
\* asks the relay for the pending list.
SubmitClick ==
    /\ Stimulus
    /\ ~submitHidden
    /\ ~disabled["submitBatchBtn"]
    /\ flow' = [IdleFlow EXCEPT !.kind = "submit", !.pc = "pending"]
    /\ disabled' = [disabled EXCEPT !["submitBatchBtn"] = TRUE]
    /\ ev' = Event("click", "submitBatch", connectedAddress, NoVal,
                   NoWithdrawal, TRUE)
    /\ UNCHANGED <<calls, xfer, ledgerVars, sessionVars, currentVars, req, wd, claimBtns,
                   checkBtns, submitHidden, pollVars, relayVars>>

\* getPendingWithdrawals answers inside the batch handler; the handler
\* keeps the list (none when success is false) and calls submitBatch.
SubmitPending(res) ==
    /\ flow.kind = "submit" /\ flow.pc = "pending"
    /\ IF res = "throw"
       THEN /\ flow' = IdleFlow
            /\ disabled' = Finally(disabled, "submit")
            /\ ev' = Msg(Event("pending", "submitBatch", connectedAddress,
                               NoVal, NoWithdrawal, FALSE), "error")
       ELSE /\ flow' = [flow EXCEPT !.pc = "submit",
                           !.list = IF res = "ok" THEN PendingList ELSE <<>>]
            /\ UNCHANGED disabled
            /\ ev' = Event("pending", "submitBatch", connectedAddress, NoVal,
                           NoWithdrawal, res = "ok")
    /\ UNCHANGED <<calls, xfer, ledgerVars, now, sessionVars, currentVars, req, wd, claimBtns,
                   checkBtns, submitHidden, pollVars, relayVars>>

\* submitBatch answers: the relay has put its whole queue in a batch and
\* says so (ok) or the answer is lost on the way (lost), or it refuses
\* (success false, or an exception such as 403 or 400).  On success the
\* handler writes a record for every withdrawal of the list it fetched, then
\* reloads the list; in every other case it writes nothing.
SubmitBatch(res) ==
    /\ flow.kind = "submit" /\ flow.pc = "submit"
    /\ res \in {"ok", "lost"} => (Len(relayQueue) > 0 /\ nextBatchId <= MaxBatch)
    /\ IF res \in {"ok", "lost"}
       THEN relayQueue' = <<>> /\ nextBatchId' = nextBatchId + 1
       ELSE UNCHANGED <<relayQueue, nextBatchId>>
    /\ IF SubmitOk(res)
       THEN /\ storage' = SaveAll(storage, flow.list, nextBatchId,
                                  TxOf(nextBatchId), now)
            /\ LoadBegin("submit",
                         Msg([Event("batched", "submitBatch", connectedAddress,
                                    NoVal, NoWithdrawal, res = "ok")
                              EXCEPT !.status = res], "success"))
       ELSE /\ UNCHANGED <<storage, pollVars>>
            /\ flow' = IdleFlow
            /\ disabled' = Finally(disabled, "submit")
            /\ ev' = Msg([Event("batched", "submitBatch", connectedAddress,
                                NoVal, NoWithdrawal, FALSE)
                          EXCEPT !.status = res], "error")
    /\ UNCHANGED <<calls, xfer, now, sessionVars, currentVars, req, wd, claimBtns, checkBtns,
                   submitHidden, fixedVars>>

\* ------------------------------------------------- handleClaimWithdrawal
SetClaimButton(i, att, dis) ==
    IF att /\ i \in DOMAIN claimBtns
    THEN [claimBtns EXCEPT ![i].disabled = dis]
    ELSE claimBtns

\* receipt.status === 1
ReceiptOk_Always(res) == TRUE

ReceiptOk(res) == res = "status1"

\* A click on the i-th Withdraw Now button of the Ready to Claim section:
\* handleClaimWithdrawal reads the button's data, disables it and asks the
\* relay for the proof.
ClaimBegin(i) ==
    /\ i \in DOMAIN claimBtns
    /\ ~claimBtns[i].disabled
    /\ flow' = [IdleFlow EXCEPT !.kind = "claim", !.pc = "proof",
                                !.amount = claimBtns[i].amount,
                                !.nonce = claimBtns[i].nonce,
                                !.batchId = claimBtns[i].batch,
                                !.btn = i, !.att = TRUE]
    /\ claimBtns' = SetClaimButton(i, TRUE, TRUE)
    /\ ev' = Event("click", "handleClaimWithdrawal", connectedAddress,
                   claimBtns[i].nonce, NoWithdrawal, TRUE)
    /\ UNCHANGED <<calls, ledgerVars, sessionVars, currentVars, tabVars, checkBtns,
                   submitHidden, pollVars, relayVars>>

ClaimClick(i) == Stimulus /\ ClaimBegin(i)

\* The withdrawal a proof in the relay's answer is a proof of: the one
\* asked for, or one with another amount or another nonce.
ProofNames == {"same", "amount", "nonce"}
ProofLeaf(names, user, amount, nonce, batchId) ==
    [user |-> user,
     amount |-> Str(IF names = "amount" THEN amount.v + 1 ELSE amount.v),
     nonce |-> Str(IF names = "nonce" THEN nonce.v + 1 ELSE nonce.v),
     batchId |-> batchId, txHash |-> NoTx, timestamp |-> 0]

\* The proof lookup answers.  Without success and a proof the handler
\* shows an error and returns, whatever the status says; with them, status
\* already_processed removes the record and reloads; otherwise the handler
\* calls gunL2Bridge.withdraw.  The event holds the withdrawal the proof
\* is a proof of.
ClaimProofOf(r, names) ==
    /\ flow.kind = "claim" /\ flow.pc = "proof"
    /\ ~r.proof => names = "same"
    /\ LET e == [Event("proof", "handleClaimWithdrawal", connectedAddress,
                       flow.nonce,
                       IF r.proof
                       THEN ProofLeaf(names, connectedAddress, flow.amount,
                                      flow.nonce, r.batchId)
                       ELSE NoWithdrawal,
                       HasProof(r))
                 EXCEPT !.status = r.status]
       IN CASE ~HasProof(r) ->
                 /\ claimBtns' = SetClaimButton(flow.btn, flow.att, FALSE)
                 /\ flow' = IdleFlow
                 /\ ev' = Msg(e, "error")
                 /\ UNCHANGED <<storage, disabled, pollVars>>
            [] HasProof(r) /\ r.status = "already_processed" ->
                 /\ storage' = removeBatchedWithdrawal(storage, connectedAddress,
                                                       flow.nonce)
                 /\ LoadBegin("claim",
                       Msg([e EXCEPT !.entry = Dropped(storage, connectedAddress,
                                                       flow.nonce)], "success"))
                 /\ UNCHANGED claimBtns
            [] HasProof(r) /\ r.status # "already_processed" ->
                 /\ flow' = [flow EXCEPT !.pc = "send", !.batchId = r.batchId]
                 /\ ev' = [e EXCEPT !.chain = TRUE]
                 /\ UNCHANGED <<storage, disabled, pollVars, claimBtns>>
    /\ UNCHANGED <<calls, xfer, now, sessionVars, currentVars, req, wd, checkBtns,
                   submitHidden, relayVars>>

ClaimProof(r) == ClaimProofOf(r, "same")

\* gunL2Bridge.withdraw returns the transaction or throws; the catch gives
\* the button back.
ClaimSend(res) ==
    /\ flow.kind = "claim" /\ flow.pc = "send"
    /\ IF res = "sent"
       THEN /\ flow' = [flow EXCEPT !.pc = "wait"]
            /\ ev' = Msg(Event("sent", "handleClaimWithdrawal", connectedAddress,
                               flow.nonce, NoWithdrawal, TRUE), "info")
            /\ UNCHANGED claimBtns
       ELSE /\ flow' = IdleFlow
            /\ ev' = Msg(Event("txThrow", "handleClaimWithdrawal",
                               connectedAddress, flow.nonce, NoWithdrawal,
                               FALSE), "error")
            /\ claimBtns' = SetClaimButton(flow.btn, flow.att, FALSE)
    /\ UNCHANGED <<calls, ledgerVars, now, sessionVars, currentVars, tabVars, checkBtns,
                   submitHidden, pollVars, relayVars>>

\* tx.wait() gives the receipt or throws.  Status 1 removes the record;
\* any receipt is followed by the reload of the list.
ClaimWait(res) ==
    /\ flow.kind = "claim" /\ flow.pc = "wait"
    /\ IF res = "throw"
       THEN /\ flow' = IdleFlow
            /\ ev' = Msg(Event("txThrow", "handleClaimWithdrawal",
                               connectedAddress, flow.nonce, NoWithdrawal,
                               FALSE), "error")
            /\ claimBtns' = SetClaimButton(flow.btn, flow.att, FALSE)
            /\ UNCHANGED <<storage, disabled, pollVars>>
       ELSE /\ storage' = IF ReceiptOk(res)
                          THEN removeBatchedWithdrawal(storage, connectedAddress,
                                                       flow.nonce)
                          ELSE storage
            /\ LoadBegin("claim",
                         Msg([Event("receipt", "handleClaimWithdrawal",
                                    connectedAddress, flow.nonce, NoWithdrawal,
                                    res = "status1")
                              EXCEPT !.status = res,
                                     !.entry = IF ReceiptOk(res)
                                               THEN Dropped(storage,
                                                        connectedAddress,
                                                        flow.nonce)
                                               ELSE NoEntry],
                             IF ReceiptOk(res) THEN "success" ELSE "error"))
            /\ UNCHANGED claimBtns
    /\ UNCHANGED <<calls, xfer, now, sessionVars, currentVars, req, wd, checkBtns,
                   submitHidden, relayVars>>

\* ------------------------------------------- the Check Proof buttons
SetCheckButton(i, att, dis, text) ==
    IF att /\ i \in DOMAIN checkBtns
    THEN [checkBtns EXCEPT ![i].disabled = dis, ![i].text = text]
    ELSE checkBtns

\* The button window.proofPollingButtons holds for id, if any.
HasButton(id) == \E b \in pollButtons : b.id = id
ButtonOf(id) == CHOOSE b \in pollButtons : b.id = id

\* startProofPolling(user, amount, nonce, buttonId): the interval of the
\* button, if one runs, is cleared, a new loop is registered and its first
\* poll() is on its way (attempts = 1).
StartTimers_NoClear(id) == timers \cup {[id |-> id, attempts |-> 1]}
StartTimers(id) == {t \in timers : t.id # id} \cup {[id |-> id, attempts |-> 1]}
StartPolls(id) ==
    Append(Orphaned(polls, {id}), [id |-> id, own |-> TRUE, att |-> 0])

\* A click on the i-th button of the Pending section: the button is noted
\* in window.proofPollingButtons, disabled, and the proof is looked up, in
\* the Withdraw Now branch when the button says so.
CheckBegin(i) ==
    /\ i \in DOMAIN checkBtns
    /\ ~checkBtns[i].disabled
    /\ LET direct == checkBtns[i].text = "Withdraw Now"
           id == checkBtns[i].nonce.v
       IN /\ pollButtons' = {b \in pollButtons : b.id # id}
                              \cup {[id |-> id, idx |-> i, att |-> TRUE]}
          /\ flow' = [IdleFlow EXCEPT
                         !.kind = IF direct THEN "withdrawNow" ELSE "check",
                         !.pc = "proof",
                         !.amount = checkBtns[i].amount,
                         !.nonce = checkBtns[i].nonce,
                         !.btn = i, !.att = TRUE]
          /\ checkBtns' = SetCheckButton(i, TRUE, TRUE,
                              IF direct THEN "Withdrawing..." ELSE "Checking...")
    /\ ev' = Event("click", "checkProofBtn", connectedAddress,
                   checkBtns[i].nonce, NoWithdrawal, TRUE)
    /\ UNCHANGED <<calls, ledgerVars, sessionVars, currentVars, tabVars, claimBtns,
                   submitHidden, timers, polls, relayVars>>

CheckClick(i) == Stimulus /\ CheckBegin(i)

\* The proof lookup of the click handler answers.  pending and
\* already_processed are looked at first; with a proof the handler calls
\* gunL2Bridge.withdraw; without one the Withdraw Now branch gives the
\* button back and the other branch starts polling (as it does on 404).
CheckProof(r) ==
    /\ flow.kind \in {"withdrawNow", "check"} /\ flow.pc = "proof"
    /\ LET direct == flow.kind = "withdrawNow"
           id == flow.nonce.v
           e == [Event("proof", "checkProofBtn", connectedAddress, flow.nonce,
                       NoWithdrawal, HasProof(r)) EXCEPT !.status = r.status]
           back(text, m) ==
               /\ checkBtns' = SetCheckButton(flow.btn, flow.att, FALSE, text)
               /\ flow' = IdleFlow
               /\ ev' = Msg(e, m)
               /\ UNCHANGED <<disabled, timers, polls, pollButtons>>
           poll(m) ==
               /\ checkBtns' = SetCheckButton(flow.btn, flow.att, TRUE,
                                              "Waiting for batch...")
               /\ flow' = IdleFlow
               /\ ev' = Msg(e, m)
               /\ timers' = StartTimers(id)
               /\ polls' = StartPolls(id)
               /\ UNCHANGED <<disabled, pollButtons>>
       IN CASE r.thrown = "404" /\ direct -> back("Withdraw Now", "error")
            [] r.thrown = "404" /\ ~direct -> poll("info")
            [] r.thrown = "other" ->
                 back(IF direct THEN "Withdraw Now" ELSE "Check Proof", "error")
            [] r.thrown = "none" /\ r.status = "pending" ->
                 IF direct THEN back("Waiting for batch...", "info")
                 ELSE poll("info")
            [] r.thrown = "none" /\ r.status = "already_processed" ->
                 /\ checkBtns' = SetCheckButton(flow.btn, flow.att, FALSE,
                                                "Already Processed")
                 /\ LoadBegin(flow.kind, Msg(e, "success"))
            [] r.thrown = "none" /\ r.status = "none" /\ HasProof(r) ->
                 /\ checkBtns' = SetCheckButton(flow.btn, flow.att, TRUE,
                                                "Withdrawing...")
                 /\ flow' = [flow EXCEPT !.pc = "send", !.batchId = r.batchId]
                 /\ ev' = [e EXCEPT !.chain = TRUE]
                 /\ UNCHANGED <<disabled, timers, polls, pollButtons>>
            [] r.thrown = "none" /\ r.status = "none" /\ ~HasProof(r) ->
                 IF direct THEN back("Check Proof", "error") ELSE poll("info")
    /\ UNCHANGED <<calls, xfer, ledgerVars, now, sessionVars, currentVars, req, wd, claimBtns,
                   submitHidden, relayVars>>

\* gunL2Bridge.withdraw and tx.wait() of the click handler: an exception
\* gives the button back; a receipt, whatever its status, is followed by
\* the reload of the list.  The stored list is not touched.
CheckSend(res) ==
    /\ flow.kind \in {"withdrawNow", "check"} /\ flow.pc = "send"
    /\ IF res = "sent"
       THEN /\ flow' = [flow EXCEPT !.pc = "wait"]
            /\ ev' = Msg(Event("sent", "checkProofBtn", connectedAddress,
                               flow.nonce, NoWithdrawal, TRUE), "info")
            /\ UNCHANGED checkBtns
       ELSE /\ flow' = IdleFlow
            /\ ev' = Msg(Event("txThrow", "checkProofBtn", connectedAddress,
                               flow.nonce, NoWithdrawal, FALSE), "error")
            /\ checkBtns' = SetCheckButton(flow.btn, flow.att, FALSE,
                                IF flow.kind = "withdrawNow"
                                THEN "Withdraw Now" ELSE "Check Proof")
    /\ UNCHANGED <<calls, ledgerVars, now, sessionVars, currentVars, tabVars, claimBtns,
                   submitHidden, pollVars, relayVars>>

CheckWait(res) ==
    /\ flow.kind \in {"withdrawNow", "check"} /\ flow.pc = "wait"
    /\ IF res = "throw"
       THEN /\ flow' = IdleFlow
            /\ ev' = Msg(Event("txThrow", "checkProofBtn", connectedAddress,
                               flow.nonce, NoWithdrawal, FALSE), "error")
            /\ checkBtns' = SetCheckButton(flow.btn, flow.att, FALSE,
                                IF flow.kind = "withdrawNow"
                                THEN "Withdraw Now" ELSE "Check Proof")
            /\ UNCHANGED <<disabled, pollVars>>
       ELSE /\ LoadBegin(flow.kind,
                         Msg([Event("receipt", "checkProofBtn", connectedAddress,
                                    flow.nonce, NoWithdrawal, res = "status1")
                              EXCEPT !.status = res],
                             IF res = "status1" THEN "success" ELSE "error"))
            /\ UNCHANGED checkBtns
    /\ UNCHANGED <<calls, xfer, ledgerVars, now, sessionVars, currentVars, req, wd, claimBtns,
                   submitHidden, relayVars>>

\* ------------------------------------------------------ startProofPolling
maxAttempts == 60

RemoveAt(seq, k) == SubSeq(seq, 1, k - 1) \o SubSeq(seq, k + 1, Len(seq))

\* The interval of button id fires: poll() counts an attempt and asks the
\* relay for the proof.
Poll(id) ==
    /\ \E t \in timers : t.id = id
    /\ timers' = {IF t.id = id THEN [t EXCEPT !.attempts = t.attempts + 1] ELSE t :
                     t \in timers}
    /\ polls' = Append(polls, [id |-> id, own |-> TRUE, att |-> 0])
    /\ ev' = Event("tick", "startProofPolling", connectedAddress, Str(id),
                   NoWithdrawal, TRUE)
    /\ UNCHANGED <<calls, ledgerVars, sessionVars, currentVars, tabVars, listVars,
                   pollButtons, relayVars>>

PollFire(id) ==
    /\ Stimulus
    /\ Poll(id)

\* The proof lookup of the k-th poll() in flight answers: with a proof, at
\* the last attempt, or on an error other than 404 the interval registered
\* for the button is cleared and the noted button, if any, is given back;
\* otherwise the loop goes on.
PollAnswer(k, r) ==
    /\ k \in DOMAIN polls
    /\ LET p == polls[k]
           attempts == IF p.own THEN Attempts(p.id) ELSE p.att
           e == [Event("poll", "startProofPolling", connectedAddress, Str(p.id),
                       NoWithdrawal, HasProof(r))
                 EXCEPT !.status = r.status, !.stale = ~p.own]
           stop(text, m) ==
               /\ timers' = {t \in timers : t.id # p.id}
               /\ polls' = Orphaned(RemoveAt(polls, k), {p.id})
               /\ IF HasButton(p.id)
                  THEN /\ checkBtns' = SetCheckButton(ButtonOf(p.id).idx,
                                           ButtonOf(p.id).att, FALSE, text)
                       /\ ev' = Msg(e, m)
                  ELSE /\ UNCHANGED checkBtns
                       /\ ev' = e
           continue ==
               /\ polls' = RemoveAt(polls, k)
               /\ ev' = e
               /\ UNCHANGED <<timers, checkBtns>>
       IN CASE r.thrown = "none" /\ HasProof(r) -> stop("Withdraw Now", "success")
            [] r.thrown = "other" -> stop("Check Proof", "error")
            [] r.thrown # "other" /\ ~HasProof(r) /\ attempts >= maxAttempts ->
                 stop("Check Proof", "warning")
            [] r.thrown # "other" /\ ~HasProof(r) /\ attempts < maxAttempts ->
                 continue
    /\ UNCHANGED <<calls, ledgerVars, now, sessionVars, currentVars, tabVars, flow,
                   claimBtns, submitHidden, pollButtons, relayVars>>

-----------------------------------------------------------------------------
\* What the relay answers to a list or state request.
ListResults == {"throw", "fail", "ok"}

Next ==
    \/ \E a \in WalletAccounts, derived \in BOOLEAN : connectWallet(a, derived)
    \/ Restart
    \/ \E a \in {x \in RecoverInputs : x.user.uc /\ x.txHash = NoTx} : Recover(a)
    \/ \E id \in 1..NumAccounts, amount \in 1..MaxAmount, nonce \in 1..MaxNonce :
          OtherRequest(id, amount, nonce)
    \/ \E amountIn \in 0..MaxAmount, nonceIn \in 0..MaxNonce :
          RequestClick(amountIn, nonceIn)
    \/ \E b \in BalanceAnswers : RequestBalance(b.res, b.balance)
    \/ \E signed \in BOOLEAN : RequestSign(signed)
    \/ \E res \in {"accepted", "lost", "rejected", "throw"} :
          RequestSubmit(res, 1, TRUE)
    \/ WithdrawClick
    \/ \E r \in ProofResults : WithdrawProof(r)
    \/ \E res \in SendResults : WithdrawSend(res)
    \/ \E res \in WaitResults : WithdrawWait(res)
    \/ RefreshClick
    \/ \E res \in ListResults : LoadPending(res)
    \/ \E res \in ListResults : LoadState(res)
    \/ SubmitClick
    \/ \E res \in ListResults : SubmitPending(res)
    \/ \E res \in {"ok", "lost", "fail", "throw"} : SubmitBatch(res)
    \/ \E i \in 1..MaxQueue : ClaimClick(i)
    \/ \E r \in ProofResults : ClaimProof(r)
    \/ \E res \in SendResults : ClaimSend(res)
    \/ \E res \in WaitResults : ClaimWait(res)
    \/ \E i \in 1..MaxQueue : CheckClick(i)
    \/ \E r \in ProofResults : CheckProof(r)
    \/ \E res \in SendResults : CheckSend(res)
    \/ \E res \in WaitResults : CheckWait(res)
    \/ \E t \in timers : PollFire(t.id)
    \/ \E k \in 1..MaxQueue, r \in ProofResults : PollAnswer(k, r)

Spec == Init /\ [][Next]_vars

-----------------------------------------------------------------------------
\* ------------------------------------- the batch handler and other clients
\* Another client's withdrawal request, or one of another session of the
\* same account, reaches the relay while the batch handler waits for the
\* answer of submitBatch or while handleRequestWithdraw signs and submits.
RequestArrives(id, amount, nonce) ==
    /\ \/ flow.kind = "submit" /\ flow.pc = "submit"
       \/ req.pc \in {"sign", "submit"}
    /\ now < MaxOps /\ now' = now + 1
    /\ CanAccept(id, nonce)
    /\ relayQueue' = Accept(id, amount, nonce)
    /\ ev' = Event("accepted", "relay", [id |-> id, uc |-> FALSE], Num(nonce),
                   NoWithdrawal, TRUE)
    /\ UNCHANGED <<calls, ledgerVars, sessionVars, currentVars, tabVars, listVars,
                   pollVars, fixedVars, nextBatchId>>

\* The pending list and the batch handler, with the relay open to other
\* clients all the time.
NextBatch ==
    \/ \E a \in WalletAccounts, derived \in BOOLEAN : connectWallet(a, derived)
    \/ \E id \in 1..NumAccounts, amount \in 1..MaxAmount, nonce \in 1..MaxNonce :
          OtherRequest(id, amount, nonce)
    \/ \E id \in 1..NumAccounts, amount \in 1..MaxAmount, nonce \in 1..MaxNonce :
          RequestArrives(id, amount, nonce)
    \/ RefreshClick
    \/ \E res \in ListResults : LoadPending(res)
    \/ \E res \in ListResults : LoadState(res)
    \/ SubmitClick
    \/ \E res \in ListResults : SubmitPending(res)
    \/ \E res \in {"ok", "lost", "fail", "throw"} : SubmitBatch(res)

SpecBatch == Init /\ [][NextBatch]_vars

-----------------------------------------------------------------------------
\* -------------------------------------------- the withdraw tab, both builds
InitTab ==
    /\ Start
    /\ build \in Builds

\* The withdraw tab of either build, with a relay that may or may not echo
\* the queued withdrawal, that gives a request without a nonce one of its
\* own, and that other sessions reach while a request is on its way.
NextTab ==
    \/ \E a \in WalletAccounts, derived \in BOOLEAN : connectWallet(a, derived)
    \/ \E amountIn \in 0..MaxAmount, nonceIn \in 0..MaxNonce :
          RequestClick(amountIn, nonceIn)
    \/ \E b \in BalanceAnswers : RequestBalance(b.res, b.balance)
    \/ \E n \in 0..MaxNonce : RequestNonce(n)
    \/ \E signed \in BOOLEAN : RequestSign(signed)
    \/ \E res \in {"accepted", "lost", "rejected", "throw"},
          g \in 1..MaxNonce, echoed \in BOOLEAN : RequestSubmit(res, g, echoed)
    \/ \E id \in 1..NumAccounts, amount \in 1..MaxAmount, nonce \in 1..MaxNonce :
          RequestArrives(id, amount, nonce)
    \/ WithdrawClick
    \/ \E r \in ProofResults : WithdrawProof(r)
    \/ \E res \in SendResults : WithdrawSend(res)
    \/ \E res \in WaitResults : WithdrawWait(res)

SpecTab == InitTab /\ [][NextTab]_vars

\* ------------------------------------------------- balance reconciliation
\* handleReconcileBalance, up to its await of relay.bridge.reconcileBalance.
ReconcileClick ==
    /\ Stimulus
    /\ ~disabled["reconcileBalanceBtn"]
    /\ IF connectedAddress = NoAddr
       THEN /\ ev' = Msg(Event("guard", "handleReconcileBalance",
                               connectedAddress, NoVal, NoWithdrawal, FALSE),
                         "error")
            /\ UNCHANGED <<flow, disabled>>
       ELSE /\ flow' = [IdleFlow EXCEPT !.kind = "reconcile", !.pc = "ask"]
            /\ disabled' = [disabled EXCEPT !["reconcileBalanceBtn"] = TRUE]
            /\ ev' = Msg(Event("click", "handleReconcileBalance",
                               connectedAddress, NoVal, NoWithdrawal, TRUE),
                         "info")
    /\ UNCHANGED <<calls, ledgerVars, sessionVars, currentVars, req, wd, xfer,
                   claimBtns, checkBtns, submitHidden, pollVars, relayVars>>

\* What relay.bridge.reconcileBalance gives: success with the balance
\* corrected or found right, success false, or an exception.
ReconcileResults == {"corrected", "same", "fail", "throw"}

\* result.success
Reconciled_Always(res) == TRUE
Reconciled(res) == res \in {"corrected", "same"}

\* The relay answers.  On success the handler shows the two balances and
\* the relay's message and calls updateBalances (the event's status tells
\* that), then gives the button back; on success false it shows the error
\* and gives the button back; in the catch block setButtonLoading saves
\* the loading state and restoreButton puts it back.
ReconcileAnswer(res) ==
    /\ flow.kind = "reconcile" /\ flow.pc = "ask"
    /\ flow' = IdleFlow
    /\ LET e == Event("reconcile", "handleReconcileBalance", connectedAddress,
                      NoVal, NoWithdrawal, res \in {"corrected", "same"})
       IN CASE res = "throw" ->
                 /\ ev' = Msg(e, "error")
                 /\ UNCHANGED disabled
            [] res # "throw" /\ ~Reconciled(res) ->
                 /\ ev' = Msg(e, "error")
                 /\ disabled' = [disabled EXCEPT !["reconcileBalanceBtn"] = FALSE]
            [] res # "throw" /\ Reconciled(res) ->
                 /\ ev' = Msg([e EXCEPT !.status = "refreshed"],
                              IF res = "corrected" THEN "success" ELSE "info")
                 /\ disabled' = [disabled EXCEPT !["reconcileBalanceBtn"] = FALSE]
    /\ UNCHANGED <<calls, ledgerVars, now, sessionVars, currentVars, req, wd, xfer,
                   claimBtns, checkBtns, submitHidden, pollVars, relayVars>>

\* ------------------------- claims from the withdraw tab and from the list
\* A click on the other entry point while a claim is between two awaits;
\* the clock does not tick.
ClaimMeanwhile(i) == wd.pc # "idle" /\ ClaimBegin(i) /\ UNCHANGED now
WithdrawMeanwhile ==
    /\ flow.kind = "claim" /\ flow.pc # "idle"
    /\ WithdrawBegin(0)
    /\ UNCHANGED now

NextRace ==
    \/ \E a \in WalletAccounts : connectWallet(a, TRUE)
    \/ \E a \in {x \in RecoverInputs : x.user.uc /\ x.txHash = NoTx} : Recover(a)
    \/ \E nonceIn \in 1..MaxNonce : RequestClick(MaxAmount, nonceIn)
    \/ RequestBalance("ok", MaxAmount)
    \/ RequestSign(TRUE)
    \/ RequestSubmit("accepted", 1, TRUE)
    \/ RefreshClick
    \/ \E res \in ListResults : LoadPending(res)
    \/ WithdrawClick
    \/ WithdrawMeanwhile
    \/ \E r \in ProofResults : WithdrawProof(r)
    \/ \E res \in SendResults : WithdrawSend(res)
    \/ \E res \in WaitResults : WithdrawWait(res)
    \/ \E i \in 1..MaxQueue : ClaimClick(i)
    \/ \E i \in 1..MaxQueue : ClaimMeanwhile(i)
    \/ \E r \in ProofResults : ClaimProof(r)
    \/ \E res \in SendResults : ClaimSend(res)
    \/ \E res \in WaitResults : ClaimWait(res)

SpecRace == Init /\ [][NextRace]_vars

\* ------------------------------------------- the withdraw tab of part_001
InitOld ==
    /\ Start
    /\ build = "part_001"

NextOld ==
    \/ \E a \in WalletAccounts, derived \in BOOLEAN : connectWallet(a, derived)
    \/ \E amountIn \in 0..MaxAmount, nonceIn \in 0..MaxNonce :
          RequestClick(amountIn, nonceIn)
    \/ \E b \in BalanceAnswers : RequestBalance(b.res, b.balance)
    \/ \E signed \in BOOLEAN : RequestSign(signed)
    \/ \E res \in {"accepted", "rejected", "throw", "lost"} :
          RequestSubmit(res, 1, TRUE)
    \/ \E typed \in 0..MaxAmount : WithdrawClickWith(typed)
    \/ \E r \in ProofResults : WithdrawProof(r)
    \/ \E res \in SendResults : WithdrawSend(res)
    \/ \E res \in WaitResults : WithdrawWait(res)

SpecOld == InitOld /\ [][NextOld]_vars

\* ------------------------------------- requests and transfers, signed
\* A call createDualSignatures(message) for itself, with a withdrawal's
\* message; the event holds what it returned.
DualSignCall(amount, nonce) ==
    /\ Stimulus
    /\ LET message == WithdrawMessage(amount, nonce)
           auth == IF SignaturesThrow THEN NoAuth
                   ELSE createDualSignatures(message)
       IN ev' = [Event("sign", "createDualSignatures", connectedAddress,
                       nonce, NoWithdrawal, ~SignaturesThrow)
                 EXCEPT !.sent = [NoPayload EXCEPT
                                    !.message = message,
                                    !.seaSignature = auth.seaSignature,
                                    !.ethSignature = auth.ethSignature,
                                    !.gunPubKey = auth.gunPubKey]]
    /\ UNCHANGED <<calls, ledgerVars, sessionVars, currentVars, tabVars, listVars,
                   pollVars, relayVars>>

\* What a user types as recipient: an address in either form, or nothing
\* that is an address.
ToInputs == Addr \cup {NoAddr}

NextAuth ==
    \/ \E a \in WalletAccounts, derived \in BOOLEAN : connectWallet(a, derived)
    \/ \E amountIn \in (-1)..MaxAmount, nonceIn \in 0..MaxNonce :
          RequestClick(amountIn, nonceIn)
    \/ \E b \in BalanceAnswers : RequestBalance(b.res, b.balance)
    \/ \E signed \in BOOLEAN : RequestSign(signed)
    \/ \E res \in {"accepted", "rejected", "throw", "lost"} :
          RequestSubmit(res, 1, TRUE)
    \/ \E toIn \in ToInputs, amountIn \in (-1)..MaxAmount :
          TransferClick(toIn, amountIn)
    \/ \E b \in BalanceAnswers : TransferBalance(b.res, b.balance)
    \/ \E signed \in BOOLEAN : TransferSign(signed)
    \/ \E res \in {"accepted", "rejected", "throw"} : TransferSubmit(res)
    \/ \E amount \in {Big(a) : a \in 1..MaxAmount},
          nonce \in {Big(n) : n \in 1..MaxNonce} : DualSignCall(amount, nonce)

SpecAuth == Init /\ [][NextAuth]_vars

-----------------------------------------------------------------------------
\* ------------------------------------------- the polling loops on their own
\* Lookups of the polling loops that wait for the relay at one time, and
\* calls of startProofPolling in one behaviour.
MaxInFlight == 2
MaxStarts == 2

\* What getProof answers to a poll(), which reads success and proof only:
\* 404, another error, or a response with or without a proof.
PollResults == {r \in ProofResults : r.status = "none" /\ r.batchId <= 1}

\* A call startProofPolling(user, amount, nonce, buttonId) by a caller that
\* has put the button in window.proofPollingButtons, as the click handler
\* does.  The event's flag tells that a loop was running for the button.
PollStart(id) ==
    /\ now < MaxStarts /\ now' = now + 1
    /\ Len(polls) < MaxInFlight
    /\ timers' = StartTimers(id)
    /\ polls' = StartPolls(id)
    /\ pollButtons' = {b \in pollButtons : b.id # id}
                         \cup {[id |-> id, idx |-> id, att |-> TRUE]}
    /\ ev' = Event("start", "startProofPolling", connectedAddress, Str(id),
                   NoWithdrawal, \E t \in timers : t.id = id)
    /\ UNCHANGED <<calls, ledgerVars, sessionVars, currentVars, tabVars, listVars,
                   relayVars>>

\* The interval of button id fires whether or not earlier lookups have been
\* answered.  (The count is followed one step past maxAttempts.)
PollTick(id) ==
    /\ Attempts(id) <= maxAttempts
    /\ Len(polls) < MaxInFlight
    /\ Poll(id)
    /\ UNCHANGED now

\* startProofPolling called for any button, timers that fire on their own,
\* and answers in any order.
NextPoll ==
    \/ \E id \in 1..MaxNonce : PollStart(id)
    \/ \E id \in 1..MaxNonce : PollTick(id)
    \/ \E k \in 1..MaxInFlight, r \in PollResults : PollAnswer(k, r)

SpecPoll == Init /\ [][NextPoll]_vars

\* Balance reconciliation beside a stored record, a current withdrawal and
\* polling loops that have been started and whose first lookup is answered.
NextReconcile ==
    \/ \E a \in WalletAccounts, derived \in BOOLEAN : connectWallet(a, derived)
    \/ \E a \in {x \in RecoverInputs : x.user.uc /\ x.txHash = NoTx} : Recover(a)
    \/ \E nonceIn \in 1..MaxNonce : RequestClick(MaxAmount, nonceIn)
    \/ RequestBalance("ok", MaxAmount)
    \/ RequestSign(TRUE)
    \/ RequestSubmit("accepted", 1, TRUE)
    \/ \E id \in 1..MaxNonce : PollStart(id)
    \/ \E k \in 1..MaxInFlight, r \in PollResults : PollAnswer(k, r)
    \/ ReconcileClick
    \/ \E res \in ReconcileResults : ReconcileAnswer(res)

SpecReconcile == Init /\ [][NextReconcile]_vars

\* ------------------------------- reloads and clicks beside running loops
\* A click on the refresh button or on a Check Proof button while lookups
\* of polling loops wait for the relay; the clock does not tick.
RefreshMeanwhile ==
    /\ polls # <<>> /\ flow.pc = "idle"
    /\ RefreshBegin
    /\ UNCHANGED now

CheckMeanwhile(i) ==
    /\ polls # <<>> /\ Len(polls) < MaxInFlight /\ flow.pc = "idle"
    /\ CheckBegin(i)
    /\ UNCHANGED now

\* The pending list with its Check Proof buttons, the loops they start and
\* reloads of the list at any moment.
NextReload ==
    \/ \E a \in WalletAccounts : connectWallet(a, TRUE)
    \/ \E a \in {x \in RecoverInputs : x.user.uc /\ x.txHash = NoTx} : Recover(a)
    \/ \E id \in 1..NumAccounts, nonce \in 1..MaxNonce :
          OtherRequest(id, MaxAmount, nonce)
    \/ RefreshClick
    \/ RefreshMeanwhile
    \/ \E res \in ListResults : LoadPending(res)
    \/ \E res \in ListResults : LoadState(res)
    \/ \E i \in 1..MaxQueue : CheckClick(i)
    \/ \E i \in 1..MaxQueue : CheckMeanwhile(i)
    \/ \E r \in ProofResults : CheckProof(r)
    \/ \E res \in SendResults : CheckSend(res)
    \/ \E res \in WaitResults : CheckWait(res)
    \/ \E t \in timers : PollFire(t.id)
    \/ \E k \in 1..MaxInFlight, r \in PollResults : PollAnswer(k, r)

SpecReload == Init /\ [][NextReload]_vars

-----------------------------------------------------------------------------
\* ------------------------------------------ manual recovery and the claim
\* window.recoverBatchedWithdrawal called within the first MaxLedgerOps
\* stimuli.
RecoverCall(a) ==
    /\ now < MaxLedgerOps
    /\ Recover(a)

\* Recovery with every kind of argument, the pending list and its claim
\* buttons.
NextRecover ==
    \/ \E a \in WalletAccounts, derived \in BOOLEAN : connectWallet(a, derived)
    \/ \E a \in RecoverInputs : RecoverCall(a)
    \/ RefreshClick
    \/ \E res \in ListResults : LoadPending(res)
    \/ \E i \in 1..MaxQueue : ClaimClick(i)
    \/ \E r \in ProofResults, names \in ProofNames : ClaimProofOf(r, names)
    \/ \E res \in SendResults : ClaimSend(res)
    \/ \E res \in WaitResults : ClaimWait(res)

SpecRecover == Init /\ [][NextRecover]_vars

-----------------------------------------------------------------------------
\* ----------------------------------------------------- ledger properties
SameAccount(a, b) == toLowerCase(a) = toLowerCase(b)

\* The entries of account a (whatever the letter case of a) that the stored
\* list offers through getUserBatchedWithdrawals.
ListedFor(a) == Range(getUserBatchedWithdrawals(storage, a))

UniqueKeys ==
    \A i, j \in 1..Len(storage) :
        KeyOf(storage[i]) = KeyOf(storage[j]) => i = j

ReplacesInPlace ==
    (ev'.type \in {"save", "recover"} /\ ev'.ok) =>
        LET k == FindIndex(storage, KeyOf(ev'.w))
        IN /\ Len(storage') = Len(storage)
           /\ storage'[k] = Stamp(ev'.w, now)
           /\ storage'[k].batchedAt >= storage[k].batchedAt
           /\ \A i \in 1..Len(storage) : i # k => storage'[i] = storage[i]

-----------------------------------------------------------------------------
\* ------------------------------------------------------- claim properties
\* The stored list holds an entry whose key is (user, nonce), the account
\* compared case-insensitively and the nonce by its string form.
HasKey(withdrawals, user, nonce) ==
    \E i \in 1..Len(withdrawals) :
        KeyOf(withdrawals[i]) = <<toLowerCase(user), toString(nonce)>>

ClaimReceipt(e) == e.via = "handleClaimWithdrawal" /\ e.type = "receipt"

\* C1: after a successful on-chain claim of (account, nonce), that is a
\* receipt with status 1, whichever of the three handlers sent the
\* transaction, the stored list holds no entry for (account, nonce).
C1_ClaimRetiresRecord ==
    (ev.type = "receipt" /\ ev.ok) => ~HasKey(storage, ev.user, ev.nonce)

\* C2: when the on-chain claim of handleClaimWithdrawal fails (the withdraw
\* call or the wait throws, or the receipt's status is not 1) the stored
\* list is left as it was, and the claim can be made again with the same
\* amount and nonce: after an exception the button is enabled again with its
\* data unchanged, after a failed receipt the list is being loaded anew.
C2_FailedClaimKeepsRecord ==
    [][(ev'.via = "handleClaimWithdrawal"
          /\ (ev'.type = "txThrow" \/ (ev'.type = "receipt" /\ ~ev'.ok)))
       => /\ storage' = storage
          /\ ev'.type = "txThrow" =>
                /\ flow.btn \in DOMAIN claimBtns'
                /\ ~claimBtns'[flow.btn].disabled
                /\ claimBtns'[flow.btn].amount = flow.amount
                /\ claimBtns'[flow.btn].nonce = flow.nonce
          /\ ev'.type = "receipt" =>
                flow'.kind = "claim" /\ flow'.pc = "loadPending"]_vars

\* A receipt with status 0 has come for a claim, and the entry is stored.
C2_Witness ==
    /\ ClaimReceipt(ev) /\ ev.status = "status0"
    /\ HasKey(storage, ev.user, ev.nonce)
    /\ flow.pc = "loadPending"

\* C3: when the proof lookup of handleClaimWithdrawal reports
\* already_processed, with or without a proof, the handler removes the entry
\* for (account, nonce), shows a success message and does not call
\* gunL2Bridge.withdraw.
C3_AlreadyProcessedIsSuccess ==
    (ev.via = "handleClaimWithdrawal" /\ ev.type = "proof"
        /\ ev.status = "already_processed")
    => /\ ~HasKey(storage, ev.user, ev.nonce)
       /\ ev.msg = "success"
       /\ ~ev.chain

\* C4: no handler calls gunL2Bridge.withdraw in the step in which its proof
\* lookup reported already_processed.
C4_NoClaimAfterAlreadyProcessed ==
    ~(ev.type = "proof" /\ ev.status = "already_processed" /\ ev.chain)

\* C5: a key that is in the stored list before a step and not after it has
\* been removed by handleClaimWithdrawal for exactly that key, in the step
\* that saw the receipt with status 1 or the already_processed answer; no
\* other step (a restart, a reload of the list, a poll, a failed claim, a
\* relay error, a save or a recovery) makes a key disappear.
C5_OnlyClaimRemoves ==
    [][\A i \in 1..Len(storage) :
          (~\E j \in 1..Len(storage') : KeyOf(storage'[j]) = KeyOf(storage[i]))
          => /\ ev'.via = "handleClaimWithdrawal"
             /\ \/ ev'.type = "receipt" /\ ev'.status = "status1"
                \/ ev'.type = "proof" /\ ev'.status = "already_processed"
             /\ KeyOf(storage[i]) =
                   <<toLowerCase(ev'.user), toString(ev'.nonce)>>]_vars

\* A claim's receipt with status 1 has dropped its entry and another entry
\* is still stored.
C5_Witness ==
    /\ ClaimReceipt(ev) /\ ev.ok
    /\ ev.entry # NoEntry
    /\ ~HasKey(storage, ev.user, ev.nonce)
    /\ storage # <<>>

\* C6: when the claim of handleClaimWithdrawal is confirmed with receipt
\* status 1, the entry of the connected account with the claimed nonce is
\* removed and every other entry stays as it was, for entries written by the
\* batch handler and by manual recovery alike.
C6_ClaimRemovesExactlyThatRecord ==
    [][(ClaimReceipt(ev') /\ ev'.status = "status1")
       => storage' = SelectSeq(storage,
                        LAMBDA w : KeyOf(w) # <<toLowerCase(ev'.user),
                                                toString(ev'.nonce)>>)]_vars

\* C7: a restart resets the in-memory state and leaves the stored list as it
\* is; every rendering of the list gives an enabled claim button with the
\* amount, nonce and batch of each stored entry of the connected account;
\* and no step of loadPendingWithdrawals or handleClaimWithdrawal signs
\* (createDualSignatures) or sends the relay a withdrawal request.
C7_RecoveryAfterRestart ==
    [][/\ ev'.type = "restart" =>
             /\ storage' = storage
             /\ currentWithdrawalNonce' = NoVal
             /\ currentWithdrawalAmount' = NoVal
             /\ timers' = {}
             /\ ~gunKeypair'
       /\ (ev'.type = "rendered" /\ ev'.ok /\ flow.pc = "loadPending") =>
             \A w \in Range(storage') :
                toLowerCase(w.user) = toLowerCase(connectedAddress) =>
                   \E i \in DOMAIN claimBtns' :
                      /\ claimBtns'[i].amount = toString(w.amount)
                      /\ claimBtns'[i].nonce = toString(w.nonce)
                      /\ claimBtns'[i].batch = w.batchId
                      /\ ~claimBtns'[i].disabled
       /\ ev'.via \in {"loadPendingWithdrawals", "handleClaimWithdrawal"} =>
             /\ ev'.type \notin {"sign", "accepted"}
             /\ relayQueue' = relayQueue
             /\ req' = req]_vars

\* An entry stored before the last restart has been claimed with receipt
\* status 1 and dropped, with no keypair derived, no current withdrawal and
\* no request ever taken in by the relay.
C7_Witness ==
    /\ ClaimReceipt(ev) /\ ev.ok
    /\ ev.entry # NoEntry
    /\ ev.entry.batchedAt < bootAt
    /\ ~gunKeypair
    /\ currentWithdrawalNonce = NoVal /\ currentWithdrawalAmount = NoVal
    /\ relayQueue = <<>> /\ nextBatchId = 1

\* C10: a step of the batch handler changes the stored list only when
\* submitBatch has answered success; when it reports failure or throws, the
\* list is left as it was.
C10_RecordsOnlyAfterSuccess ==
    [][(ev'.via = "submitBatch" /\ ~(ev'.type = "batched" /\ ev'.status = "ok"))
       => storage' = storage]_vars

\* submitBatch has thrown while the relay lists pending withdrawals, and
\* nothing is stored.
C10_Witness ==
    /\ ev.via = "submitBatch" /\ ev.type = "batched" /\ ev.status = "throw"
    /\ relayQueue # <<>>
    /\ storage = <<>>

\* C11: when submitBatch has answered success, the stored list holds, for
\* every withdrawal the relay has put in the batch (its whole queue at that
\* moment), an entry with the batch's id and transaction hash, and every
\* entry the step has written is for a withdrawal of the batch; also when a
\* request has reached the relay after the handler fetched the pending list.
C11_RecordsAreTheBatch ==
    [][(ev'.via = "submitBatch" /\ ev'.type = "batched" /\ ev'.status = "ok")
       => /\ \A i \in 1..Len(relayQueue) :
                \E j \in 1..Len(storage') :
                   /\ KeyOf(storage'[j]) = KeyOf(Delivered(relayQueue[i]))
                   /\ storage'[j].batchId = nextBatchId
                   /\ storage'[j].txHash = TxOf(nextBatchId)
          /\ \A j \in 1..Len(storage') :
                storage'[j] \notin Range(storage) =>
                   \E i \in 1..Len(relayQueue) :
                      KeyOf(storage'[j]) = KeyOf(Delivered(relayQueue[i]))]_vars

\* C12: recoverBatchedWithdrawal(user, amount, nonce, batchId, txHash)
\* leaves exactly one entry for (user, nonce), holding the given amount and
\* nonce as strings, the given batchId and the given txHash (none when it
\* was omitted), in the place of an entry the key had before and with every
\* other entry as it was; the entry is listed for the user's account in any
\* letter case; every rendering of the list gives it an enabled claim
\* button; and a claim of an entry with a string nonce that is confirmed
\* with receipt status 1 removes it.
C12_RecoveryInsertsClaimable ==
    [][/\ ev'.type = "recover" =>
             LET k == <<toLowerCase(ev'.user), toString(ev'.nonce)>>
                 hits == SelectSeq(storage', LAMBDA w : KeyOf(w) = k)
                 IsArgs(a) == /\ a.user = ev'.user
                              /\ a.nonce = ev'.nonce
                              /\ toString(a.amount) = hits[1].amount
                              /\ a.batchId = hits[1].batchId
                              /\ a.txHash = hits[1].txHash
             IN /\ Len(hits) = 1
                /\ hits[1].user = ev'.user
                /\ hits[1].nonce = toString(ev'.nonce)
                /\ hits[1].nonce.t = "str" /\ hits[1].amount.t = "str"
                /\ \E a \in RecoverInputs : IsArgs(a)
                /\ hits[1].batchedAt = now
                /\ Len(storage') = Len(storage)
                                      + (IF HasKey(storage, ev'.user, ev'.nonce)
                                         THEN 0 ELSE 1)
                /\ \A i \in 1..Len(storage) :
                      KeyOf(storage[i]) # k => storage'[i] = storage[i]
                /\ \A c \in Addr :
                      SameAccount(c, ev'.user) => hits[1] \in
                         Range(getUserBatchedWithdrawals(storage', c))
       /\ (ev'.type = "rendered" /\ ev'.ok /\ flow.pc = "loadPending") =>
             \A w \in Range(storage') :
                (SameAccount(w.user, connectedAddress) /\ w.nonce.t = "str") =>
                   \E i \in DOMAIN claimBtns' :
                      /\ claimBtns'[i].amount = w.amount
                      /\ claimBtns'[i].nonce = w.nonce
                      /\ ~claimBtns'[i].disabled
       /\ (ClaimReceipt(ev') /\ ev'.status = "status1"
             /\ ev'.entry # NoEntry /\ ev'.entry.nonce.t = "str") =>
             /\ ~HasKey(storage', ev'.user, ev'.nonce)
             /\ ev'.entry \in Range(storage)]_vars

\* An entry recovered without a transaction hash, which no batch writes, has
\* been claimed through its claim button with receipt status 1 and is gone.
C12_Witness ==
    /\ ClaimReceipt(ev) /\ ev.ok
    /\ ev.entry # NoEntry
    /\ ev.entry.txHash = NoTx
    /\ ev.entry.nonce.t = "str"
    /\ ~HasKey(storage, ev.user, ev.nonce)

\* C13: no polling loop issues more than maxAttempts lookups: the count of
\* poll() calls of a running loop never passes maxAttempts, also when the
\* relay's answers come later than the next firing of the interval.
C13_AtMostMaxAttemptsLookups ==
    \A t \in timers : t.attempts <= maxAttempts

\* C14: at any time at most one interval is registered for a button, and a
\* call of startProofPolling for a button leaves exactly one loop for it,
\* the new one with its first lookup counted: the loop that ran for the
\* button before has no interval left, its lookups in flight no longer
\* belong to a running loop, and the loops of other buttons are untouched.
C14_OneLoopPerButton ==
    /\ [](\A t1, t2 \in timers : t1.id = t2.id => t1 = t2)
    /\ [][ev'.type = "start" =>
             LET id == ev'.nonce.v
             IN /\ {t \in timers' : t.id = id} = {[id |-> id, attempts |-> 1]}
                /\ {t \in timers' : t.id # id} = {t \in timers : t.id # id}
                /\ Len(polls') = Len(polls) + 1
                /\ polls'[Len(polls')].id = id /\ polls'[Len(polls')].own
                /\ \A k \in 1..Len(polls) :
                      IF polls[k].id = id
                      THEN /\ ~polls'[k].own
                           /\ polls[k].own => polls'[k].att = Attempts(id)
                      ELSE polls'[k] = polls[k]]_vars

\* startProofPolling has been called for a button whose loop had counted
\* more than one lookup, one of them still in flight.
C14_Witness ==
    /\ ev.type = "start" /\ ev.ok
    /\ \E k \in 1..Len(polls) :
          /\ polls[k].id = ev.nonce.v /\ ~polls[k].own /\ polls[k].att > 1
    /\ \E t \in timers : t.id = ev.nonce.v /\ t.attempts = 1

\* C15: an answer to a lookup of the poller is treated by its kind: on
\* already_processed no interval is left for the button and, when the
\* button is still noted, a success message is shown; on pending without a
\* proof the intervals stay as they are; on success with a proof (and no
\* status) no interval is left for the button and the noted button is
\* enabled with the text Withdraw Now.
C15_PollerDistinguishesResponses ==
    [][ev'.type = "poll" =>
          LET id == ev'.nonce.v
              stopped == \A t \in timers' : t.id # id
          IN /\ ev'.status = "already_processed" =>
                   /\ stopped
                   /\ HasButton(id) => ev'.msg = "success"
             /\ (ev'.status = "pending" /\ ~ev'.ok) => timers' = timers
             /\ (ev'.status = "none" /\ ev'.ok) =>
                   /\ stopped
                   /\ (HasButton(id) /\ ButtonOf(id).idx \in DOMAIN checkBtns) =>
                         /\ ~checkBtns'[ButtonOf(id).idx].disabled
                         /\ checkBtns'[ButtonOf(id).idx].text = "Withdraw Now"]_vars

\* C16: an answer to a proof lookup (of handleCheckProofAndWithdraw, of the
\* pending list's handlers or of the poller) that brings no proof, be it
\* pending, 404 or a failure, leaves the current nonce, the current amount
\* and the stored list as they were and is not followed by
\* gunL2Bridge.withdraw; and a handler goes on to gunL2Bridge.withdraw only
\* in the step of an answer with success and a proof, whose batch it passes.
C16_PendingLookupChangesNothing ==
    [][/\ (ev'.type \in {"proof", "poll"} /\ ~ev'.ok) =>
             /\ currentWithdrawalNonce' = currentWithdrawalNonce
             /\ currentWithdrawalAmount' = currentWithdrawalAmount
             /\ storage' = storage
             /\ ~ev'.chain
             /\ wd'.pc # "send" /\ flow'.pc # "send"
       /\ ev'.chain =>
             /\ ev'.type = "proof" /\ ev'.ok
             /\ IF ev'.via = "handleCheckProofAndWithdraw"
                THEN wd'.pc = "send" /\ wd'.batchId # 0
                ELSE flow'.pc = "send" /\ flow'.batchId # 0
       /\ (wd'.pc = "send" /\ wd.pc # "send") => ev'.chain
       /\ (flow'.pc = "send" /\ flow.pc # "send") => ev'.chain]_vars

\* handleCheckProofAndWithdraw has been told that the withdrawal is pending
\* and is idle again, with the current nonce and amount still set and an
\* entry in the stored list.
C16_Witness ==
    /\ ev.type = "proof" /\ ev.via = "handleCheckProofAndWithdraw"
    /\ ev.status = "pending" /\ ~ev.ok
    /\ wd.pc = "idle"
    /\ currentWithdrawalNonce # NoVal /\ currentWithdrawalAmount # NoVal
    /\ storage # <<>>

\* The step in which handleRequestWithdraw has the relay's answer to its
\* withdraw call: accepted, or rejected (also thrown or lost).
Accepted(e) == e.via = "handleRequestWithdraw" /\ e.type = "accepted"
Submitted(e) ==
    e.via = "handleRequestWithdraw" /\ e.type \in {"accepted", "rejected"}

\* C17: when the relay has accepted a request of handleRequestWithdraw, the
\* client holds the account, the nonce under which the relay has queued the
\* request and its amount as the current withdrawal, also when the answer
\* carries no nonce; and the current withdrawal it held before, which is
\* that of an accepted request not yet claimed, is still held.
C17_AcceptedTupleIsKept ==
    [][Accepted(ev') =>
          LET q == relayQueue'[Len(relayQueue')]
          IN /\ connectedAddress'.id = q.user
             /\ currentWithdrawalNonce' = Big(q.nonce)
             /\ currentWithdrawalAmount' = Big(q.amount)
             /\ currentWithdrawalNonce # NoVal =>
                   /\ currentWithdrawalNonce' = currentWithdrawalNonce
                   /\ currentWithdrawalAmount' = currentWithdrawalAmount]_vars

\* C18: the nonce handleRequestWithdraw leaves for
\* handleCheckProofAndWithdraw is the one of the withdrawal in the relay's
\* answer, and none when the answer carries none; and
\* handleCheckProofAndWithdraw looks the proof up and calls
\* gunL2Bridge.withdraw with that nonce.
C18_ClaimUsesEchoedNonce ==
    [][/\ Accepted(ev') =>
             currentWithdrawalNonce' =
                IF ev'.w = NoWithdrawal THEN NoVal ELSE Big(ev'.w.nonce.v)
       /\ (ev'.via = "handleCheckProofAndWithdraw"
             /\ (ev'.type = "click" \/ ev'.chain)) =>
             wd'.nonce = currentWithdrawalNonce]_vars

\* C19: a request that handleRequestWithdraw submits with a nonce does not
\* carry the nonce of a request of the same account that the relay has
\* already taken in (from this client or from another session).
C19_SubmittedNoncesAreFresh ==
    [][(Submitted(ev') /\ ev'.nonce # NoVal) =>
          ~InQueue(connectedAddress.id, ev'.nonce.v)]_vars

\* C20: in handleRequestWithdraw of part_002 the message is signed only
\* after the nonce query has been answered, with the nonce the query gave
\* or with none; nothing of the request changes between the signing and the
\* submission; and the payload's nonce is the nonce of the signed message:
\* both the reserved nonce, or both absent.  (In app.js both are the
\* string of the handler's nonce.)
C20_PayloadNonceIsSignedNonce ==
    [][/\ (build = "part_002" /\ req'.pc = "sign" /\ req.pc # "sign") =>
             ev'.type = "nonce" /\ req.pc = "nonce"
       /\ (req'.pc = "submit" /\ req.pc # "submit") =>
             /\ ev'.type = "sign" /\ req.pc = "sign"
             /\ req'.nonce = req.nonce
             /\ build = "part_002" =>
                   req'.msg = (IF Truthy(req.nonce) THEN req.nonce ELSE NoVal)
       /\ (req.pc = "submit" /\ req'.pc = "submit") => req' = req
       /\ Submitted(ev') =>
             /\ req.pc = "submit"
             /\ ev'.nonce = req.msg
             /\ build = "part_002" =>
                   ev'.nonce = (IF Truthy(req.nonce) THEN req.nonce ELSE NoVal)]_vars

\* part_002 has had a request accepted whose message and payload carried
\* no nonce, the nonce query having failed.
C20_Witness ==
    /\ build = "part_002"
    /\ Accepted(ev) /\ ev.nonce = NoVal
    /\ relayQueue # <<>>

\* C21: when the relay's answer to an accepted request carries a nonce that
\* is not the nonce of the signed message (the message had another nonce, or
\* none), handleRequestWithdraw signs anew: it is about to sign a message
\* with the relay's nonce, and it has not yet set the current withdrawal
\* that handleCheckProofAndWithdraw looks up and claims.
C21_ResignsOnDifferentNonce ==
    [][(Accepted(ev') /\ ev'.w # NoWithdrawal
          /\ (req.msg = NoVal \/ req.msg.v # ev'.w.nonce.v))
       => /\ req'.pc = "sign"
          /\ req'.nonce.v = ev'.w.nonce.v
          /\ currentWithdrawalNonce' = currentWithdrawalNonce
          /\ currentWithdrawalAmount' = currentWithdrawalAmount]_vars

\* A step that called the relay's withdraw or transfer endpoint.
RelayCall(e) ==
    /\ e.type \in {"accepted", "rejected"}
    /\ e.via \in {"handleRequestWithdraw", "handleTransfer"}

\* C22: in every payload handed to relay.bridge.withdraw or
\* relay.bridge.transfer the SEA signature and the Ethereum signature were
\* computed over one string, that string is the payload's message, the
\* payload's gunPubKey is the public key of the pair that made the SEA
\* signature, and the addresses inside the message (the connected account,
\* a transfer's recipient) are lower-case.
C22_BothSignaturesOverThePayloadMessage ==
    RelayCall(ev) =>
        /\ ev.sent.message # NoMessage
        /\ ev.sent.seaSignature.over = ev.sent.message
        /\ ev.sent.ethSignature.over = ev.sent.message
        /\ ev.sent.gunPubKey = ev.sent.seaSignature.by
        /\ ev.sent.message.ethereumAddress = toLowerCase(connectedAddress)
        /\ ~ev.sent.message.to.uc
        /\ ev.sent.message.to.id = ev.sent.to.id
\* A transfer to a recipient typed in checksum form went through.
C22_Witness ==
    /\ RelayCall(ev) /\ ev.ok
    /\ ev.via = "handleTransfer"
    /\ ev.sent.to.uc

\* C23: while the keypair has not been derived, a click on the withdraw
\* or the transfer button ends at the first guard with an error message:
\* nothing is sent to the relay, nothing is signed, the current withdrawal
\* and both flows stay as they were and no handler or timer is left
\* running; createDualSignatures called for itself throws and returns no
\* signature.
C23_NoKeypairNothingSent ==
    [][~gunKeypair =>
         /\ ev'.via \in {"handleRequestWithdraw", "handleTransfer"} =>
               /\ ev'.type = "guard" /\ ev'.msg = "error"
               /\ ev'.sent = NoPayload
               /\ req' = IdleTab /\ xfer' = IdleTransfer
               /\ UNCHANGED <<currentVars, relayQueue, storage, timers, polls,
                              disabled>>
         /\ ev'.via = "createDualSignatures" =>
               /\ ~ev'.ok
               /\ ev'.sent.seaSignature = NoSig
               /\ ev'.sent.ethSignature = NoSig
               /\ ev'.sent.gunPubKey = 0]_vars
\* The wallet is connected, deriving the keypair failed, the user clicked
\* the withdraw button.
C23_Witness ==
    /\ connectedAddress # NoAddr /\ ~gunKeypair
    /\ ev.type = "guard" /\ ev.via = "handleRequestWithdraw"

\* A step in which a handler's validation of its inputs or of the balance
\* failed.
ValidationFailed(e) ==
    /\ e.via \in {"handleRequestWithdraw", "handleTransfer"}
    /\ e.type = "invalid" \/ (e.type = "balance" /\ ~e.ok)

\* C24: the payload of every call of the relay's withdraw or transfer
\* endpoint has an amount above zero and not above the balance the
\* successful balance lookup of the same handler run reported, and a
\* transfer's recipient is a well-formed address; a step in which the
\* validation fails ends the handler without a signature, leaves the
\* relay's queue, the stored list, the current withdrawal and the timers
\* as they were and nothing goes on by itself.
C24_RelayCalledOnlyWithValidInput ==
    [][/\ RelayCall(ev') =>
            LET run == IF ev'.via = "handleTransfer" THEN xfer ELSE req
            IN /\ ev'.sent.amount.v > 0
               /\ run.balance # NoVal
               /\ ev'.sent.amount.v <= run.balance.v
               /\ ev'.via = "handleTransfer" => isAddress(ev'.sent.to)
       /\ ValidationFailed(ev') =>
            /\ req' = IdleTab /\ xfer' = IdleTransfer
            /\ ev'.sent = NoPayload
            /\ UNCHANGED <<currentVars, relayQueue, storage, timers, polls>>]_vars
\* A transfer of the whole reported balance reached the relay.
C24_Witness ==
    /\ RelayCall(ev) /\ ev.via = "handleTransfer"
    /\ ev.sent.amount.v = MaxAmount

AcceptedByRelay(id, nonce, amount) ==
    \E i \in 1..Len(relayQueue) :
        /\ relayQueue[i].user = id
        /\ relayQueue[i].nonce = nonce
        /\ relayQueue[i].amount = amount

\* C26: while handleCheckProofAndWithdraw is at its proof lookup or at its
\* on-chain withdraw call, the amount and nonce it passes are those of a
\* request of the connected account that the relay has accepted.
C26_ClaimsWithTheAcceptedAmount ==
    wd.pc # "idle" =>
        AcceptedByRelay(connectedAddress.id, wd.nonce.v, wd.amount.v)

\* C27: when the proof handleClaimWithdrawal gets from the relay is a
\* proof of a withdrawal with another amount or another nonce than the
\* record being claimed, the handler does not call gunL2Bridge.withdraw
\* and the stored list stays as it is.
C27_MismatchedProofIsNotClaimed ==
    [][(/\ ev'.type = "proof" /\ ev'.via = "handleClaimWithdrawal"
        /\ ev'.w # NoWithdrawal
        /\ \/ ev'.w.amount.v # flow.amount.v
           \/ ev'.w.nonce.v # flow.nonce.v)
       => ~ev'.chain /\ storage' = storage]_vars

\* C28: no two claim flows of the client have called gunL2Bridge.withdraw
\* for the same nonce of the connected account without one of them having
\* its receipt: handleCheckProofAndWithdraw and handleClaimWithdrawal are
\* never both between their on-chain call and its confirmation for one
\* withdrawal.
C28_OneClaimInFlight ==
    ~(/\ wd.pc \in {"send", "wait"}
      /\ flow.kind = "claim" /\ flow.pc \in {"send", "wait"}
      /\ wd.nonce.v = flow.nonce.v)

\* C29: a write of a ledger call for one key leaves every stored record
\* of another key in the list, also when another page of the origin has
\* read or written the list between the call's read and its write; and
\* a page that crashes between its read and its write leaves the list as
\* it is.
C29_WritesKeepOtherKeys ==
    [][/\ (ev'.via = "shared" /\ ev'.type \in {"save", "remove"}) =>
            \A i \in 1..Len(storage) :
                KeyOf(storage[i]) # KeyOf(ev'.w) =>
                    \E j \in 1..Len(storage') : storage'[j] = storage[i]
       /\ (ev'.via = "shared" /\ ev'.type = "crash") => storage' = storage]_vars

\* C30: every step of handleReconcileBalance leaves the stored list, the
\* current withdrawal nonce and amount, the polling timers and noted
\* buttons, the other handlers and the relay's queue as they are; it asks
\* the relay once; only an answer with success is followed by the balances
\* being fetched and shown again, any other answer by an error message
\* alone.
C30_ReconcileOnlyRefreshesBalances ==
    [][ev'.via = "handleReconcileBalance" =>
         /\ UNCHANGED <<storage, currentVars, timers, pollButtons, req, wd, xfer,
                        relayQueue, claimBtns, checkBtns>>
         /\ ev'.type = "reconcile" =>
               /\ flow' = IdleFlow
               /\ ev'.status = (IF ev'.ok THEN "refreshed" ELSE "none")
               /\ ~ev'.ok => ev'.msg = "error"]_vars
\* The relay refused to reconcile while a record was stored, a withdrawal
\* was current and a polling timer was running.
C30_Witness ==
    /\ ev.via = "handleReconcileBalance" /\ ev.type = "reconcile" /\ ~ev.ok
    /\ storage # <<>>
    /\ currentWithdrawalNonce # NoVal
    /\ timers # {}

-----------------------------------------------------------------------------
\* ------------------------------------------------- reloads and stale polls
\* A step in which loadPendingWithdrawals passes its connection guard and
\* reaches its first await.
LoadStarts == flow.pc # "loadPending" /\ flow'.pc = "loadPending"

\* C31: when loadPendingWithdrawals starts, no interval of an earlier
\* polling loop stays registered, no lookup in flight belongs to a
\* registered loop any more, and the stored list is as it was; a poll()
\* is only ever issued by an interval that is registered.
C31_ReloadCancelsPolling ==
    [][/\ LoadStarts =>
             /\ timers' = {}
             /\ pollButtons' = {}
             /\ \A k \in DOMAIN polls' : ~polls'[k].own
             /\ storage' = storage
       /\ (ev'.type = "tick" /\ Len(polls') > Len(polls)) =>
             \E t \in timers : Str(t.id) = ev'.nonce]_vars

\* A reload waits for the pending list while a lookup of a loop it has
\* cancelled is still on its way, beside a stored entry.
C31_Witness ==
    /\ flow.pc = "loadPending"
    /\ storage # <<>>
    /\ \E k \in DOMAIN polls : ~polls[k].own /\ polls[k].att >= 1

\* C32: when a run of loadPendingWithdrawals ends, whatever the relay has
\* answered, the list shows a claim button for every stored entry of the
\* connected account.
C32_EveryRecordIsOffered ==
    [][(ev'.type = "rendered" /\ ev'.via = "loadPendingWithdrawals") =>
          \A w \in Range(getUserBatchedWithdrawals(storage', connectedAddress')) :
              \E i \in DOMAIN claimBtns' :
                  /\ claimBtns'[i].nonce = Str(w.nonce.v)
                  /\ claimBtns'[i].amount = Str(w.amount.v)
                  /\ claimBtns'[i].batch = w.batchId]_vars

-----------------------------------------------------------------------------
\* ------------------------------------------ the withdraw tab after failures
\* C33: once handleRequestWithdraw or handleCheckProofAndWithdraw has
\* ended in a failure (a rejected or failed request, a proof lookup or a
\* transaction that throws), the button that started it is enabled again.
C33_FailureRestoresTheButton ==
    /\ (req.pc = "idle" /\ ev.via = "handleRequestWithdraw" /\ ~ev.ok) =>
          ~disabled["requestWithdrawBtn"]
    /\ (wd.pc = "idle" /\ ev.via = "handleCheckProofAndWithdraw" /\ ~ev.ok) =>
          ~disabled["checkProofBtn"]

\* C34: the answer to a lookup of a polling loop that has been cancelled
\* leaves the loop registered later for the same button, and the buttons,
\* as they are.
C34_StaleAnswerLeavesLaterLoop ==
    [][(/\ ev'.type = "poll" /\ ev'.stale
        /\ \E t \in timers : Str(t.id) = ev'.nonce) =>
          /\ timers' = timers
          /\ checkBtns' = checkBtns]_vars

-----------------------------------------------------------------------------
\* ------------------------------------------------- the key of a stored entry
\* C35: removeBatchedWithdrawal(user, nonce) leaves no stored entry that
\* saveBatchedWithdrawal takes to have the key (user, nonce), the account
\* in any letter case and the nonce as a number or as a decimal string.
C35_RemoveUsesTheKeyOfSave ==
    [][(ev'.type = "remove" /\ ev'.via = "ledger") =>
          \A i \in DOMAIN storage' :
              KeyOf(storage'[i]) # <<toLowerCase(ev'.user), toString(ev'.nonce)>>]_vars

\* The entries of a list whose key is not key, in their order.
Others(withdrawals, key) == SelectSeq(withdrawals, LAMBDA w : KeyOf(w) # key)

\* C36: saveBatchedWithdrawal(w) leaves the entries of every other key as
\* they are and in their order; so does removeBatchedWithdrawal(user,
\* nonce), which leaves the whole list as it is when no entry has the key.
C36_LedgerCallsTouchTheirKeyOnly ==
    [][/\ ev'.type \in {"save", "recover"} =>
             Others(storage', KeyOf(ev'.w)) = Others(storage, KeyOf(ev'.w))
       /\ (ev'.type = "remove" /\ ev'.via = "ledger") =>
             LET key == <<toLowerCase(ev'.user), toString(ev'.nonce)>>
             IN /\ Others(storage', key) = Others(storage, key)
                /\ ~HasKey(storage, ev'.user, ev'.nonce) => storage' = storage]_vars

\* An entry has just been saved over the stored entry of its key, which
\* comes first in a list of two.
C36_Witness ==
    /\ ev.type = "save" /\ ev.ok
    /\ Len(storage) = 2
    /\ KeyOf(storage[1]) = KeyOf(ev.w)
    /\ KeyOf(storage[2]) # KeyOf(ev.w)

-----------------------------------------------------------------------------
\* -------------------------------------- the end of a claim on the withdraw tab
\* C37: a step of handleCheckProofAndWithdraw sets the current nonce and
\* amount to null and shows a success message when, and only when, it has
\* got a receipt with status 1; every other step of the handler leaves the
\* pair as it is.
C37_ClearsOnlyOnConfirmedClaim ==
    [][(ev'.via = "handleCheckProofAndWithdraw" /\ wd.pc # "idle") =>
          IF ev'.type = "receipt" /\ ev'.status = "status1"
          THEN /\ currentWithdrawalNonce' = NoVal
               /\ currentWithdrawalAmount' = NoVal
               /\ ev'.msg = "success"
          ELSE /\ currentWithdrawalNonce' = currentWithdrawalNonce
               /\ currentWithdrawalAmount' = currentWithdrawalAmount
               /\ ev'.msg # "success"]_vars

====
